---- MODULE Spec2Model ----
(***************************************************************************)
(* Provider synchronisation and policy-snapshot engine of MOE.             *)
(*                                                                         *)
(* CaptureSpec : one run of runSnapshotCapture in full detail - the UTCM   *)
(*               export job driver (create, timed wait loop, download,     *)
(*               delete), the per-endpoint legacy fallback and the final   *)
(*               status write - with the shutdown context cancellable at   *)
(*               every step.                                               *)
(* Spec        : the server process - the startup sweep, the listener, the *)
(*               create and retry handlers running concurrently,           *)
(*               the capture goroutines counted by bgWg, and Shutdown.     *)
(* TokenSpec   : the credential cache of one provider - concurrent Token() *)
(*               callers, the mutex, the exchange and the passing of time. *)
(* DiffSpec    : computeDiff applied to every pair of stored record lists  *)
(*               up to a bound, under every filter.                        *)
(* NormSpec    : two raw records normalised on the export path or on the   *)
(*               per-endpoint path, stored, and compared.                  *)
(* HealthSpec  : the health poller's rounds, manual connection tests and   *)
(*               the enable toggle, each check a read and a later write.   *)
(* StatusSpec  : the in-memory status map with its writers and readers.    *)
(* SyncSpec    : one device sync over a paginated device list.             *)
(* DownloadSpec: utcmDownloadSnapshot applied to every body of a bounded   *)
(*               set of JSON shapes.                                       *)
(* ResultSpec  : utcmResultToSyncPolicies applied to every downloaded      *)
(*               result of a bounded set.                                  *)
(* HealthLiveSpec: HealthSpec with fair scheduling and an identity         *)
(*               provider that may stop answering token requests.          *)
(* SettingsSpec: computeDiff applied to one policy captured twice, under   *)
(*               every pair of settings payloads of a bounded set.         *)
(* ActivitySpec: the activity log with concurrent writers, each Add a lock,*)
(*               an eviction and an append, and readers calling Recent.    *)
(***************************************************************************)
EXTENDS Integers, Naturals, Sequences, FiniteSets, TLC

\* ---------------------------------------------------------------- bounds
\* longest time (seconds) one poll request may take to answer
MaxPollLatency == 1
\* number of entries of policyEndpoints that the model iterates
MaxEndpoints == 3
\* most records one endpoint returns
MaxItems == 1

\* snapshot ids the store can hold
MaxSnapshots == 2
\* capture goroutines that can be in flight at once
MaxTasks == 2
\* retry requests that can be between the status check and the reset at once
MaxRetries == 2
\* concurrent callers of one credential cache
MaxCallers == 2
\* credential exchanges one run of the cache can start
MaxExchanges == 2
\* clock ticks one run of the cache lasts
MaxTicks == 2
\* policy records in one side of a comparison
MaxPolicies == 2
\* periodic health rounds one run starts
MaxRounds == 2
\* manual connection tests one run starts
MaxManualChecks == 2
\* ProviderStatus values one run puts into the status map
MaxStatusSets == 3
\* concurrent readers of the status map
MaxReaders == 2
\* pages of a paginated device list
MaxPages == 3
\* instances of the first resource group of a downloaded result
MaxInstances == 2
\* capacity of the activity log (newActivityLog's argument, scaled down)
MaxLogCapacity == 2
\* goroutines that write to the activity log concurrently
MaxLogWriters == 2
\* events handed to the activity log in one run
MaxLogEvents == 4

\* ------------------------------------------------------ program constants
\* utcmWaitForSnapshot: const pollInterval = 5 * time.Second
pollInterval == 5
\* utcmWaitForSnapshot: const maxWait = 10 * time.Minute
maxWait == 600

\* runSnapshotCapture: s.policies.DeleteOldSnapshots(10)
keepPerProvider == 10
\* tokenCache.Token: the 2 min buffer before expiry, in seconds
safetyMargin == 120

SnapshotStatusCapturing == "capturing"
SnapshotStatusComplete == "complete"
SnapshotStatusError == "error"

\* message runSnapshotCapture writes for an interrupted capture
InterruptedMsg == "interrupted - server was stopped"

\* the Graph paths of policyEndpoints, in list order
AllPolicyEndpoints ==
  << "deviceCompliancePolicies", "compliancePolicies", "deviceComplianceScripts",
     "deviceConfigurations", "configurationPolicies", "groupPolicyConfigurations",
     "intents", "templates", "managedAppPolicies", "deviceManagementScripts",
     "deviceShellScripts", "deviceHealthScripts", "deviceCustomAttributeShellScripts",
     "deviceEnrollmentConfigurations", "windowsAutopilotDeploymentProfiles",
     "windowsQualityUpdatePolicies", "hardwareConfigurations", "reusablePolicySettings" >>

policyEndpoints == SubSeq(AllPolicyEndpoints, 1, MaxEndpoints)

\* the snapshot id that the single capture of CaptureSpec works on
TheSnap == MaxSnapshots
\* the id the server gives the export job
TheJob == "job1"

VARIABLES
  \* ---- persisted snapshots (policy_snapshots table)
  snapStatus,     \* id -> "absent" | "capturing" | "complete" | "error"
  snapMsg,        \* id -> status_message
  \* ---- shared shutdown context
  ctxCancelled,   \* s.shutdownCtx is done
  \* ---- one capture run (CaptureSpec)
  pc,             \* position of the capture goroutine
  cancelledAt,    \* pc at which the context was cancelled ("" = never)
  now,            \* seconds since utcmWaitForSnapshot was entered; 0 outside the wait
  jobID,          \* job.ID returned by utcmCreateSnapshot ("" = none)
  srvStatus,      \* status of the job on the server ("none" before creation)
  srvDetails,     \* errorDetails of the job on the server
  srvDeleted,     \* the job has been deleted on the server
  lastStatus,     \* job.Status seen by the last answered poll ("" = none)
  polledLate,     \* a poll request was sent after the deadline had passed
  polledCancelled,\* a poll request was sent although ctx was already done
  waitRes,        \* outcome of utcmWaitForSnapshot ("" = not returned)
  waitDetails,    \* error details carried by the job-failed error
  deleteCalls,    \* job ids passed to utcmDeleteSnapshotJob, in call order
  asyncDelete,    \* state of the clean-up goroutine: "none" | "pending" | "done"
  utcmErr,        \* error returned by SyncPoliciesUTCM ("" = nil)
  utcmPolicies,   \* records returned by SyncPoliciesUTCM
  epIdx,          \* index of the next endpoint of syncPoliciesLegacy
  all,            \* syncPoliciesLegacy's accumulator
  visited,        \* endpoints passed to fetchPolicyEndpoint, in call order
  fetched,        \* per visited endpoint: the fetch result [items, err]
  result,         \* records returned by SyncPolicies
  syncErr,        \* error returned by SyncPolicies ("" = nil, "unset" before return)
  \* ---- the server process (Spec)
  mainPc,         \* position of main: boot, run, shutdownWait, httpShutdown, exited
  listening,      \* the HTTP listener accepts requests
  bgWg,           \* s.bgWg: capture goroutines not yet done
  doneClosed,     \* Shutdown's waiter goroutine has closed done
  graceExpired,   \* the context given to Shutdown has expired
  selectBranch,   \* the case Shutdown's select took ("" = none yet)
  shutdownErr,    \* what Shutdown returned ("unset" before it returns)
  tasks,          \* snapshot id -> capture goroutines in flight for it
  retries,        \* snapshot id -> retry requests past the status check
  nextID,         \* the next snapshot id newID() hands out
  prevCapturing,  \* the snapshots a previous run left in capturing
  recovered,      \* the snapshots the startup sweep marked ("unset" before it)
  \* ---- the credential cache of one provider (TokenSpec)
  tcToken,        \* tc.token: the cached token (0 = "", else the exchange's number)
  tcExpires,      \* tc.expires, in seconds
  tcMu,           \* tc.mu: the caller that holds it (0 = unlocked)
  clock,          \* time.Now(), in seconds
  exchanges,      \* credential exchanges started so far
  callers,        \* caller -> its current Token() call
  \* ---- one comparison of two captured policy sets (DiffSpec, NormSpec)
  rawLeft,        \* raw record captured on the left (<< >> = none)
  rawRight,       \* raw record captured on the right (<< >> = none)
  normPath,       \* "" | "export" | "endpoint": the path that normalised them
  leftItems,      \* computeDiff's leftItems
  rightItems,     \* computeDiff's rightItems
  filter,         \* computeDiff's filter
  stats,          \* the CompareStats returned
  diffs,          \* the []PolicyDiff returned
  diffPc,         \* "raw" | "input" | "compared"
  \* ---- provider health checks (HealthSpec)
  hEnabled,       \* provider -> provider_configs.enabled
  hFails,         \* provider -> provider_configs.consec_fails
  hStatus,        \* provider -> Status of its statusTracker entry ("none" = no entry)
  hCheck,         \* provider -> origin -> the checkProvider call in flight
  pollPc,         \* healthPoller: "initial" | "round" | "ticking" | "stopped"
  roundSet,       \* the configs the running round listed
  wg,             \* checkAllProviders' WaitGroup counter
  rounds,         \* rounds completed
  manuals,        \* manual checks started
  failedSince,    \* provider -> failed checks completed since its last successful one
  roundOutcome,   \* provider -> outcome its check of the running round recorded
  idpSilent,      \* the identity provider has stopped answering token requests
  \* ---- the status map and its readers (StatusSpec)
  stStatuses,     \* st.statuses: name -> pointer to a ProviderStatus (0 = no entry)
  stHeap,         \* the ProviderStatus values allocated so far, by pointer
  rdMap,          \* reader -> the map it was handed by All() (<< >> = none yet)
  rdSeen,         \* reader -> the entries and field values it saw when All() returned
  \* ---- the device sync (SyncSpec)
  sySource,       \* the provider's device list: [n |-> pages, page |-> device -> its page]
  syPc,           \* handleProviderSync: "idle", "loop", "returned", "done", "failed"
  syCursor,       \* syncProvider: cursor (0 = "")
  syTotal,        \* syncProvider: total
  syErr,          \* the error syncProvider returned ("" = nil)
  syRequests,     \* the pages requested from the device list, in order
  syCallReqs,     \* requests the last SyncDevices call sent to the device list
  syLastCall,     \* outcome of the last SyncDevices call ("none" before the first)
  syUpserts,      \* the source ids handed to devices.Upsert, in order
  syStored,       \* the source ids in the device cache
  syRecorded,     \* RecordSyncSuccess was called
  syFlash,        \* the flash type of the redirect ("" = none sent)
  \* ---- the snapshot download (DownloadSpec)
  dlBody,         \* the body the resource location serves
  dlPc,           \* utcmDownloadSnapshot: "start" or "done"
  dlErr,          \* the error it returned ("" = nil)
  dlResult,       \* the Resources of the utcmSnapshotResult it returned
  \* ---- the normalizer of a downloaded result (ResultSpec)
  nrResult,       \* result.Resources handed to utcmResultToSyncPolicies
  nrPolicies,     \* the policies it returned
  nrPc,           \* "start" or "done"
  \* ---- the activity log (ActivitySpec)
  alEvents,       \* al.events, oldest first
  alSeq,          \* al.seq
  alMu,           \* al.mu: the writer that holds it (0 = unlocked)
  alWriters,      \* writer -> its current Add call
  alCalls,        \* Add calls started so far
  alAdded,        \* every event appended so far, in append order
  alAsked,        \* the n of the last Recent call (-1 = none yet)
  alSeen,         \* al.events as the last Recent call found it
  alOut           \* what the last Recent call returned

captureVars == << pc, cancelledAt, now, jobID, srvStatus, srvDetails, srvDeleted,
                  lastStatus, polledLate, polledCancelled, waitRes, waitDetails,
                  deleteCalls, asyncDelete, utcmErr, utcmPolicies, epIdx, all,
                  visited, fetched, result, syncErr >>

serverVars == << mainPc, listening, bgWg, doneClosed, graceExpired, selectBranch,
                 shutdownErr, tasks, retries, nextID, prevCapturing,
                 recovered >>

tokenVars == << tcToken, tcExpires, tcMu, clock, exchanges, callers >>

\* the variables of the components that have a specification of their own
diffVars == << rawLeft, rawRight, normPath, leftItems, rightItems, filter, stats,
               diffs, diffPc >>

healthVars == << hEnabled, hFails, hStatus, hCheck, pollPc, roundSet, wg, rounds,
                 manuals, failedSince, roundOutcome, idpSilent >>

statusVars == << stStatuses, stHeap, rdMap, rdSeen >>

\* the components modelled after the diff engine
syncVars == << sySource, syPc, syCursor, syTotal, syErr, syRequests, syCallReqs,
              syLastCall, syUpserts, syStored, syRecorded, syFlash >>

downloadVars == << dlBody, dlPc, dlErr, dlResult >>

resultVars == << nrResult, nrPolicies, nrPc >>

activityVars == << alEvents, alSeq, alMu, alWriters, alCalls, alAdded, alAsked,
                  alSeen, alOut >>

laterVars == << healthVars, statusVars, syncVars, downloadVars, resultVars,
               activityVars >>

componentVars == << tokenVars, diffVars, laterVars >>

coreVars == << snapStatus, snapMsg, ctxCancelled, captureVars, serverVars >>

exceptToken == << coreVars, diffVars, laterVars >>

exceptDiff == << coreVars, tokenVars, laterVars >>

exceptHealth == << coreVars, tokenVars, diffVars, statusVars, syncVars, downloadVars,
                  resultVars, activityVars >>

exceptStatus == << coreVars, tokenVars, diffVars, healthVars, syncVars, downloadVars,
                  resultVars, activityVars >>

exceptSync == << coreVars, tokenVars, diffVars, healthVars, statusVars, downloadVars,
                resultVars, activityVars >>

exceptDownload == << coreVars, tokenVars, diffVars, healthVars, statusVars, syncVars,
                    resultVars, activityVars >>

exceptResult == << coreVars, tokenVars, diffVars, healthVars, statusVars, syncVars,
                  downloadVars, activityVars >>

exceptActivity == << coreVars, tokenVars, diffVars, healthVars, statusVars, syncVars,
                    downloadVars, resultVars >>

vars == << snapStatus, snapMsg, ctxCancelled, pc, cancelledAt, now, jobID,
           srvStatus, srvDetails, srvDeleted, lastStatus, polledLate,
           polledCancelled, waitRes, waitDetails, deleteCalls, asyncDelete,
           utcmErr, utcmPolicies, epIdx, all, visited, fetched, result, syncErr,
           mainPc, listening, bgWg, doneClosed, graceExpired, selectBranch,
           shutdownErr, tasks, retries, nextID, prevCapturing,
           recovered, tcToken, tcExpires, tcMu, clock, exchanges, callers,
           rawLeft, rawRight, normPath, leftItems, rightItems, filter, stats,
           diffs, diffPc, hEnabled, hFails, hStatus, hCheck, pollPc, roundSet,
           wg, rounds, manuals, failedSince, roundOutcome, idpSilent, stStatuses,
           stHeap, rdMap, rdSeen, sySource, syPc, syCursor, syTotal, syErr, syRequests,
           syCallReqs, syLastCall, syUpserts, syStored, syRecorded, syFlash,
           dlBody, dlPc, dlErr, dlResult, nrResult, nrPolicies, nrPc, alEvents,
           alSeq, alMu, alWriters, alCalls, alAdded, alAsked, alSeen, alOut >>

\* ------------------------------------------------------------ the store
SnapIds == 1 .. MaxSnapshots

\* the policy_snapshots table: status and error message by snapshot id
Store == [status |-> snapStatus, msg |-> snapMsg]

WriteStore(db) ==
  /\ snapStatus' = db.status
  /\ snapMsg' = db.msg

\* PolicyStore.UpdateSnapshotStatus: UPDATE ... WHERE id = ? (no row, no effect)
UpdateSnapshotStatus(db, id, status, msg) ==
  IF db.status[id] = "absent"
    THEN db
    ELSE [status |-> [db.status EXCEPT ![id] = status],
          msg |-> [db.msg EXCEPT ![id] = msg]]

\* PolicyStore.ResetSnapshotForRetry: status back to capturing, message cleared
ResetSnapshotForRetry(db, id) ==
  UpdateSnapshotStatus(db, id, SnapshotStatusCapturing, "")

\* PolicyStore.RecoverStaleCapturing: every capturing snapshot becomes error
RecoverStaleCapturing(db) ==
  [status |-> [i \in DOMAIN db.status |->
                 IF db.status[i] = SnapshotStatusCapturing
                   THEN SnapshotStatusError ELSE db.status[i]],
   msg |-> [i \in DOMAIN db.msg |->
              IF db.status[i] = SnapshotStatusCapturing
                THEN InterruptedMsg ELSE db.msg[i]]]

\* PolicyStore.DeleteOldSnapshots: keep the newest keep snapshots of the tenant
\* (ids are handed out in the order of taken_at)
DeleteOldSnapshots(db, keep) ==
  LET present == { i \in DOMAIN db.status : db.status[i] # "absent" }
      old == { i \in present : Cardinality({ j \in present : j > i }) >= keep }
  IN [status |-> [i \in DOMAIN db.status |->
                    IF i \in old THEN "absent" ELSE db.status[i]],
      msg |-> [i \in DOMAIN db.msg |-> IF i \in old THEN "" ELSE db.msg[i]]]

\* ------------------------------------------------------ components at rest
Callers == 1 .. MaxCallers

\* a caller that is not inside Token()
NoCall == [pc |-> "idle", arrivedAt |-> 0, arrivedTok |-> 0,
           arrivedStale |-> FALSE, hit |-> FALSE,
           entTok |-> 0, entExp |-> 0, exch |-> 0, no |-> 0, ret |-> 0,
           err |-> "", expiresIn |-> 0]

\* newTokenCache: no token, the zero expiry, the mutex unlocked
TokenIdle ==
  /\ tcToken = 0
  /\ tcExpires = 0
  /\ tcMu = 0
  /\ clock = 0
  /\ exchanges = 0
  /\ callers = [c \in Callers |-> NoCall]

\* var stats CompareStats
NoStats == [Matching |-> 0, Different |-> 0, LeftOnly |-> 0, RightOnly |-> 0]

\* no comparison has been asked for
DiffIdle ==
  /\ rawLeft = << >>
  /\ rawRight = << >>
  /\ normPath = ""
  /\ leftItems = << >>
  /\ rightItems = << >>
  /\ filter = ""
  /\ stats = NoStats
  /\ diffs = << >>
  /\ diffPc = "input"

\* the rows of provider_configs, by name
Tenants == { "intune-corp", "uem-anz" }

\* the origins of a checkProvider call: checkAllProviders or CheckProviderNow
Origins == { "round", "manual" }

NoCheck == [pc |-> "idle", cfgFails |-> 0]

\* no health check has run and the poller has not started its first round
HealthIdle ==
  /\ hEnabled = [t \in Tenants |-> TRUE]
  /\ hFails = [t \in Tenants |-> 0]
  /\ hStatus = [t \in Tenants |-> "none"]
  /\ hCheck = [t \in Tenants |-> [o \in Origins |-> NoCheck]]
  /\ pollPc = "initial"
  /\ roundSet = { }
  /\ wg = 0
  /\ rounds = 0
  /\ manuals = 0
  /\ failedSince = [t \in Tenants |-> 0]
  /\ roundOutcome = [t \in Tenants |-> ""]
  /\ idpSilent = FALSE

Readers == 1 .. MaxReaders

\* newStatusTracker: an empty map; nobody has read it
StatusIdle ==
  /\ stStatuses = [t \in Tenants |-> 0]
  /\ stHeap = << >>
  /\ rdMap = [r \in Readers |-> << >>]
  /\ rdSeen = [r \in Readers |-> << >>]

\* the managed devices of the provider, in $orderby=deviceName order
Devices == << "d1", "d2", "d3" >>

DeviceSet == { Devices[i] : i \in DOMAIN Devices }

\* no sync was requested
SyncFresh ==
  /\ syPc = "idle"
  /\ syCursor = 0
  /\ syTotal = 0
  /\ syErr = ""
  /\ syRequests = << >>
  /\ syCallReqs = 0
  /\ syLastCall = "none"
  /\ syUpserts = << >>
  /\ syStored = {}
  /\ syRecorded = FALSE
  /\ syFlash = ""

SyncIdle ==
  /\ sySource = [n |-> 1, page |-> [d \in DeviceSet |-> 1]]
  /\ SyncFresh

\* a JSON value of a body: absent, a string, or an array of items
jsonAbsent == [t |-> "absent", items |-> << >>]

\* no download was started
DownloadFresh ==
  /\ dlPc = "start"
  /\ dlErr = ""
  /\ dlResult = << >>

DownloadIdle ==
  /\ dlBody = [top |-> "invalid", members |-> << >>, items |-> << >>]
  /\ DownloadFresh

\* no result was normalised
ResultFresh ==
  /\ nrPolicies = << >>
  /\ nrPc = "start"

ResultIdle ==
  /\ nrResult = << >>
  /\ ResultFresh

\* the goroutines that call Add
LogWriters == 1 .. MaxLogWriters

\* a writer outside Add
NoAdd == [pc |-> "idle", e |-> 0]

\* newActivityLog: no event, sequence 0, nobody inside Add
ActivityIdle ==
  /\ alEvents = << >>
  /\ alSeq = 0
  /\ alMu = 0
  /\ alWriters = [w \in LogWriters |-> NoAdd]
  /\ alCalls = 0
  /\ alAdded = << >>
  /\ alAsked = -1
  /\ alSeen = << >>
  /\ alOut = << >>

\* the components modelled after the diff engine, at rest
LaterIdle ==
  /\ HealthIdle /\ StatusIdle /\ SyncIdle /\ DownloadIdle /\ ResultIdle
  /\ ActivityIdle

\* every component in its initial state
ComponentsIdle == TokenIdle /\ DiffIdle /\ LaterIdle

\* --------------------------------------------------- the export job driver
\* deadline := time.Now().Add(maxWait), the wait being entered at now = 0
deadline == maxWait

NonTerminal == { "notStarted", "running" }
Succeeded == { "succeeded", "partiallySuccessful" }

WaitPcs == { "waitTop", "waitSelect", "waitPoll", "waitPolling" }

\* utcmDeleteSnapshotJob(context.Background(), id): best effort, the error dropped
utcmDeleteSnapshotJob(id, ok) ==
  /\ deleteCalls' = Append(deleteCalls, id)
  /\ srvDeleted' = (srvDeleted \/ ok)

\* utcmCreateSnapshot, called by SyncPoliciesUTCM: POST createSnapshot
UtcmCreate ==
  /\ pc = "create"
  /\ \/ /\ ~ctxCancelled
        /\ jobID' = TheJob
        /\ srvStatus' = "notStarted"
        /\ pc' = "waitTop"
        /\ UNCHANGED utcmErr
     \/ /\ utcmErr' = "create"
        /\ pc' = "syncDecide"
        /\ UNCHANGED << jobID, srvStatus >>
  /\ UNCHANGED << snapStatus, snapMsg, ctxCancelled, cancelledAt, now, srvDetails,
                  srvDeleted, lastStatus, polledLate, polledCancelled, waitRes,
                  waitDetails, deleteCalls, asyncDelete, utcmPolicies, epIdx, all,
                  visited, fetched, result, syncErr >>
  /\ UNCHANGED serverVars
  /\ UNCHANGED componentVars

\* the job's life on the server: notStarted -> running -> a terminal status
ServerProgress ==
  /\ pc \in WaitPcs
  /\ \/ /\ srvStatus = "notStarted"
        /\ srvStatus' = "running"
        /\ UNCHANGED srvDetails
     \/ /\ srvStatus = "running"
        /\ \E s \in Succeeded, d \in { << >>, << "detail" >> } :
             srvStatus' = s /\ srvDetails' = d
     \/ /\ srvStatus = "running"
        /\ srvStatus' = "failed"
        /\ \E d \in { << >>, << "detail" >> } : srvDetails' = d
  /\ UNCHANGED << snapStatus, snapMsg, ctxCancelled, pc, cancelledAt, now, jobID,
                  srvDeleted, lastStatus, polledLate, polledCancelled, waitRes,
                  waitDetails, deleteCalls, asyncDelete, utcmErr, utcmPolicies,
                  epIdx, all, visited, fetched, result, syncErr >>
  /\ UNCHANGED serverVars
  /\ UNCHANGED componentVars

\* variant of WaitCheckDeadline: the deadline is tested one interval late
WaitCheckDeadlineLate ==
  /\ pc = "waitTop"
  /\ IF now > deadline + pollInterval
       THEN waitRes' = "timeout" /\ pc' = "waitReturned"
       ELSE waitRes' = waitRes /\ pc' = "waitSelect"
  /\ UNCHANGED << snapStatus, snapMsg, ctxCancelled, cancelledAt, now, jobID,
                  srvStatus, srvDetails, srvDeleted, lastStatus, polledLate,
                  polledCancelled, waitDetails, deleteCalls, asyncDelete, utcmErr,
                  utcmPolicies, epIdx, all, visited, fetched, result, syncErr >>
  /\ UNCHANGED serverVars
  /\ UNCHANGED componentVars

\* utcmWaitForSnapshot, top of the loop: if time.Now().After(deadline)
WaitCheckDeadline ==
  /\ pc = "waitTop"
  /\ IF now > deadline
       THEN waitRes' = "timeout" /\ pc' = "waitReturned"
       ELSE waitRes' = waitRes /\ pc' = "waitSelect"
  /\ UNCHANGED << snapStatus, snapMsg, ctxCancelled, cancelledAt, now, jobID,
                  srvStatus, srvDetails, srvDeleted, lastStatus, polledLate,
                  polledCancelled, waitDetails, deleteCalls, asyncDelete, utcmErr,
                  utcmPolicies, epIdx, all, visited, fetched, result, syncErr >>
  /\ UNCHANGED serverVars
  /\ UNCHANGED componentVars

\* variant of WaitSelect: the select has no ctx.Done() case
WaitSelectTimerOnly ==
  /\ pc = "waitSelect"
  /\ waitRes' = waitRes /\ pc' = "waitPoll" /\ now' = now + pollInterval
  /\ UNCHANGED << snapStatus, snapMsg, ctxCancelled, cancelledAt, jobID,
                  srvStatus, srvDetails, srvDeleted, lastStatus, polledLate,
                  polledCancelled, waitDetails, deleteCalls, asyncDelete, utcmErr,
                  utcmPolicies, epIdx, all, visited, fetched, result, syncErr >>
  /\ UNCHANGED serverVars
  /\ UNCHANGED componentVars

\* utcmWaitForSnapshot: select { <-ctx.Done() | <-time.After(pollInterval) }
WaitSelect ==
  /\ pc = "waitSelect"
  /\ IF ctxCancelled
       THEN waitRes' = "canceled" /\ pc' = "waitReturned" /\ now' = now
       ELSE waitRes' = waitRes /\ pc' = "waitPoll" /\ now' = now + pollInterval
  /\ UNCHANGED << snapStatus, snapMsg, ctxCancelled, cancelledAt, jobID,
                  srvStatus, srvDetails, srvDeleted, lastStatus, polledLate,
                  polledCancelled, waitDetails, deleteCalls, asyncDelete, utcmErr,
                  utcmPolicies, epIdx, all, visited, fetched, result, syncErr >>
  /\ UNCHANGED serverVars
  /\ UNCHANGED componentVars

\* utcmGetSnapshotJob -> graphGet: a request on a done context is never sent
WaitPollStart ==
  /\ pc = "waitPoll"
  /\ IF ctxCancelled
       THEN /\ waitRes' = "pollCanceled"
            /\ pc' = "waitReturned"
            /\ UNCHANGED << polledLate, polledCancelled >>
       ELSE /\ pc' = "waitPolling"
            /\ polledLate' = (polledLate \/ now > deadline)
            /\ polledCancelled' = (polledCancelled \/ ctxCancelled)
            /\ UNCHANGED waitRes
  /\ UNCHANGED << snapStatus, snapMsg, ctxCancelled, cancelledAt, now, jobID,
                  srvStatus, srvDetails, srvDeleted, lastStatus, waitDetails,
                  deleteCalls, asyncDelete, utcmErr, utcmPolicies, epIdx, all,
                  visited, fetched, result, syncErr >>
  /\ UNCHANGED serverVars
  /\ UNCHANGED componentVars

\* variant of WaitSwitch: the default case returns the job
WaitSwitchDefaultReturns(status) ==
  IF status = "failed" THEN "jobFailed" ELSE "ok"

\* the switch on job.Status of utcmWaitForSnapshot
WaitSwitch(status) ==
  IF status \in Succeeded THEN "ok"
  ELSE IF status = "failed" THEN "jobFailed"
  ELSE ""

\* the poll is answered (or fails) after some latency
WaitPollReturn ==
  /\ pc = "waitPolling"
  /\ \E d \in 0 .. MaxPollLatency :
       /\ now' = now + d
       /\ \/ /\ lastStatus' = srvStatus
             /\ waitRes' = WaitSwitch(srvStatus)
             /\ waitDetails' = IF srvStatus = "failed" THEN srvDetails ELSE waitDetails
             /\ pc' = IF WaitSwitch(srvStatus) = "" THEN "waitTop" ELSE "waitReturned"
          \/ /\ waitRes' \in IF ctxCancelled THEN { "pollCanceled", "pollFailed" }
                                           ELSE { "pollFailed" }
             /\ pc' = "waitReturned"
             /\ UNCHANGED << lastStatus, waitDetails >>
  /\ UNCHANGED << snapStatus, snapMsg, ctxCancelled, cancelledAt, jobID,
                  srvStatus, srvDetails, srvDeleted, polledLate, polledCancelled,
                  deleteCalls, asyncDelete, utcmErr, utcmPolicies, epIdx, all,
                  visited, fetched, result, syncErr >>
  /\ UNCHANGED serverVars
  /\ UNCHANGED componentVars

\* variant of UtcmAfterWait: a wait error returns without the delete
UtcmAfterWaitNoDelete ==
  /\ pc = "waitReturned"
  /\ now' = 0
  /\ IF waitRes = "ok"
       THEN /\ pc' = "download"
            /\ UNCHANGED << deleteCalls, srvDeleted, utcmErr >>
       ELSE /\ UNCHANGED << deleteCalls, srvDeleted >>
            /\ utcmErr' = "wait"
            /\ pc' = "syncDecide"
  /\ UNCHANGED << snapStatus, snapMsg, ctxCancelled, cancelledAt, jobID,
                  srvStatus, srvDetails, lastStatus, polledLate, polledCancelled,
                  waitRes, waitDetails, asyncDelete, utcmPolicies, epIdx, all,
                  visited, fetched, result, syncErr >>
  /\ UNCHANGED serverVars
  /\ UNCHANGED componentVars

\* SyncPoliciesUTCM after the wait: on an error delete the job and return
UtcmAfterWait ==
  /\ pc = "waitReturned"
  /\ now' = 0
  /\ IF waitRes = "ok"
       THEN /\ pc' = "download"
            /\ UNCHANGED << deleteCalls, srvDeleted, utcmErr >>
       ELSE /\ \E ok \in BOOLEAN : utcmDeleteSnapshotJob(jobID, ok)
            /\ utcmErr' = "wait"
            /\ pc' = "syncDecide"
  /\ UNCHANGED << snapStatus, snapMsg, ctxCancelled, cancelledAt, jobID,
                  srvStatus, srvDetails, lastStatus, polledLate, polledCancelled,
                  waitRes, waitDetails, asyncDelete, utcmPolicies, epIdx, all,
                  visited, fetched, result, syncErr >>
  /\ UNCHANGED serverVars
  /\ UNCHANGED componentVars

\* the records utcmResultToSyncPolicies can yield from a download
UtcmRecordSets == { << >>, << "utcm-policy" >> }

\* SyncPoliciesUTCM steps 3-5: download, parse, delete in a goroutine, return
UtcmDownload ==
  /\ pc = "download"
  /\ \/ /\ ~ctxCancelled
        /\ \E ps \in UtcmRecordSets : utcmPolicies' = ps
        /\ asyncDelete' = "pending"
        /\ pc' = "syncDecide"
        /\ UNCHANGED << deleteCalls, srvDeleted, utcmErr >>
     \/ /\ \E ok \in BOOLEAN : utcmDeleteSnapshotJob(jobID, ok)
        /\ utcmErr' = "download"
        /\ pc' = "syncDecide"
        /\ UNCHANGED << utcmPolicies, asyncDelete >>
  /\ UNCHANGED << snapStatus, snapMsg, ctxCancelled, cancelledAt, now, jobID,
                  srvStatus, srvDetails, lastStatus, polledLate, polledCancelled,
                  waitRes, waitDetails, epIdx, all, visited, fetched, result,
                  syncErr >>
  /\ UNCHANGED serverVars
  /\ UNCHANGED componentVars

\* variant of AsyncDelete: a delete that fails turns the export into an error
AsyncDeleteEscalates ==
  /\ asyncDelete = "pending"
  /\ \E ok \in BOOLEAN :
       /\ utcmDeleteSnapshotJob(jobID, ok)
       /\ utcmErr' = IF ok THEN utcmErr ELSE "delete"
       /\ utcmPolicies' = IF ok THEN utcmPolicies ELSE << >>
  /\ asyncDelete' = "done"
  /\ UNCHANGED << snapStatus, snapMsg, ctxCancelled, pc, cancelledAt, now, jobID,
                  srvStatus, srvDetails, lastStatus, polledLate, polledCancelled,
                  waitRes, waitDetails, epIdx, all, visited,
                  fetched, result, syncErr >>
  /\ UNCHANGED serverVars
  /\ UNCHANGED componentVars

\* the goroutine SyncPoliciesUTCM starts to delete the job after a success
AsyncDelete ==
  /\ asyncDelete = "pending"
  /\ \E ok \in BOOLEAN : utcmDeleteSnapshotJob(jobID, ok)
  /\ asyncDelete' = "done"
  /\ UNCHANGED << snapStatus, snapMsg, ctxCancelled, pc, cancelledAt, now, jobID,
                  srvStatus, srvDetails, lastStatus, polledLate, polledCancelled,
                  waitRes, waitDetails, utcmErr, utcmPolicies, epIdx, all, visited,
                  fetched, result, syncErr >>
  /\ UNCHANGED serverVars
  /\ UNCHANGED componentVars

\* ------------------------------------------------------ the policy sync
\* SyncPolicies: use the export's records, else fall back to the endpoint list
SyncDecide ==
  /\ pc = "syncDecide"
  /\ IF utcmErr = "" /\ Len(utcmPolicies) > 0
       THEN /\ result' = utcmPolicies
            /\ syncErr' = ""
            /\ pc' = "finish"
       ELSE /\ pc' = "legacy"
            /\ UNCHANGED << result, syncErr >>
  /\ UNCHANGED << snapStatus, snapMsg, ctxCancelled, cancelledAt, now, jobID,
                  srvStatus, srvDetails, srvDeleted, lastStatus, polledLate,
                  polledCancelled, waitRes, waitDetails, deleteCalls, asyncDelete,
                  utcmErr, utcmPolicies, epIdx, all, visited, fetched >>
  /\ UNCHANGED serverVars
  /\ UNCHANGED componentVars

\* the records endpoint ep can hold: << ep, 1 >>, << ep, 2 >>, ...
EndpointItems(ep) ==
  { [k \in 1 .. n |-> << ep, k >>] : n \in 0 .. MaxItems }

\* fetchPolicyEndpoint: the records of all pages, or the records so far and an error
FetchResults(ep) ==
  { [items |-> i, err |-> e] : i \in EndpointItems(ep), e \in { "", "fetch" } }

\* variant of LegacyEndpoint: the records of a failed endpoint are kept
LegacyEndpointKeepsPartial ==
  /\ pc = "legacy"
  /\ epIdx <= Len(policyEndpoints)
  /\ \E r \in FetchResults(policyEndpoints[epIdx]) :
       /\ ctxCancelled => (r.err # "" /\ r.items = << >>)
       /\ visited' = Append(visited, policyEndpoints[epIdx])
       /\ fetched' = Append(fetched, r)
       /\ all' = all \o r.items
  /\ epIdx' = epIdx + 1
  /\ UNCHANGED << snapStatus, snapMsg, ctxCancelled, pc, cancelledAt, now, jobID,
                  srvStatus, srvDetails, srvDeleted, lastStatus, polledLate,
                  polledCancelled, waitRes, waitDetails, deleteCalls, asyncDelete,
                  utcmErr, utcmPolicies, result, syncErr >>
  /\ UNCHANGED serverVars
  /\ UNCHANGED componentVars

\* variant of LegacyEndpoint: a failed endpoint also drops the records gathered
\* from the endpoints before it
LegacyEndpointDropsEarlier ==
  /\ pc = "legacy"
  /\ epIdx <= Len(policyEndpoints)
  /\ \E r \in FetchResults(policyEndpoints[epIdx]) :
       /\ ctxCancelled => (r.err # "" /\ r.items = << >>)
       /\ visited' = Append(visited, policyEndpoints[epIdx])
       /\ fetched' = Append(fetched, r)
       /\ all' = IF r.err # "" THEN << >> ELSE all \o r.items
  /\ epIdx' = epIdx + 1
  /\ UNCHANGED << snapStatus, snapMsg, ctxCancelled, pc, cancelledAt, now, jobID,
                  srvStatus, srvDetails, srvDeleted, lastStatus, polledLate,
                  polledCancelled, waitRes, waitDetails, deleteCalls, asyncDelete,
                  utcmErr, utcmPolicies, result, syncErr >>
  /\ UNCHANGED serverVars
  /\ UNCHANGED componentVars

\* syncPoliciesLegacy, one iteration of the loop over policyEndpoints
LegacyEndpoint ==
  /\ pc = "legacy"
  /\ epIdx <= Len(policyEndpoints)
  /\ \E r \in FetchResults(policyEndpoints[epIdx]) :
       /\ ctxCancelled => (r.err # "" /\ r.items = << >>)
       /\ visited' = Append(visited, policyEndpoints[epIdx])
       /\ fetched' = Append(fetched, r)
       /\ all' = IF r.err # "" THEN all ELSE all \o r.items
  /\ epIdx' = epIdx + 1
  /\ UNCHANGED << snapStatus, snapMsg, ctxCancelled, pc, cancelledAt, now, jobID,
                  srvStatus, srvDetails, srvDeleted, lastStatus, polledLate,
                  polledCancelled, waitRes, waitDetails, deleteCalls, asyncDelete,
                  utcmErr, utcmPolicies, result, syncErr >>
  /\ UNCHANGED serverVars
  /\ UNCHANGED componentVars

\* variant of LegacyReturn: an error is returned when no endpoint gave a record
LegacyReturnFailsWhenEmpty ==
  /\ pc = "legacy"
  /\ epIdx > Len(policyEndpoints)
  /\ result' = all
  /\ syncErr' = IF all = << >> THEN "no policies" ELSE ""
  /\ pc' = "finish"
  /\ UNCHANGED << snapStatus, snapMsg, ctxCancelled, cancelledAt, now, jobID,
                  srvStatus, srvDetails, srvDeleted, lastStatus, polledLate,
                  polledCancelled, waitRes, waitDetails, deleteCalls, asyncDelete,
                  utcmErr, utcmPolicies, epIdx, all, visited, fetched >>
  /\ UNCHANGED serverVars
  /\ UNCHANGED componentVars

\* syncPoliciesLegacy: return all, nil
LegacyReturn ==
  /\ pc = "legacy"
  /\ epIdx > Len(policyEndpoints)
  /\ result' = all
  /\ syncErr' = ""
  /\ pc' = "finish"
  /\ UNCHANGED << snapStatus, snapMsg, ctxCancelled, cancelledAt, now, jobID,
                  srvStatus, srvDetails, srvDeleted, lastStatus, polledLate,
                  polledCancelled, waitRes, waitDetails, deleteCalls, asyncDelete,
                  utcmErr, utcmPolicies, epIdx, all, visited, fetched >>
  /\ UNCHANGED serverVars
  /\ UNCHANGED componentVars

\* runSnapshotCapture: the status and message written for a sync outcome
CaptureOutcome(err, ctxErr) ==
  IF err # ""
    THEN IF ctxErr
           THEN [status |-> SnapshotStatusError, msg |-> InterruptedMsg]
           ELSE [status |-> SnapshotStatusError, msg |-> err]
    ELSE [status |-> SnapshotStatusComplete, msg |-> ""]

\* runSnapshotCapture: the store after the outcome is written; a completed
\* capture also prunes the old snapshots
FinishStore(db, id, outcome) ==
  IF outcome.status = SnapshotStatusComplete
    THEN DeleteOldSnapshots(
           UpdateSnapshotStatus(db, id, outcome.status, outcome.msg), keepPerProvider)
    ELSE UpdateSnapshotStatus(db, id, outcome.status, outcome.msg)

\* runSnapshotCapture after SyncPolicies returned: store items, write the status
FinishCapture ==
  /\ pc = "finish"
  /\ WriteStore(FinishStore(Store, TheSnap, CaptureOutcome(syncErr, ctxCancelled)))
  /\ pc' = "done"
  /\ UNCHANGED << ctxCancelled, cancelledAt, now, jobID, srvStatus, srvDetails,
                  srvDeleted, lastStatus, polledLate, polledCancelled, waitRes,
                  waitDetails, deleteCalls, asyncDelete, utcmErr, utcmPolicies,
                  epIdx, all, visited, fetched, result, syncErr >>
  /\ UNCHANGED serverVars
  /\ UNCHANGED componentVars

\* Shutdown: s.shutdownCancel() while the capture is in flight
CancelCapture ==
  /\ ~ctxCancelled
  /\ pc # "done"
  /\ ctxCancelled' = TRUE
  /\ cancelledAt' = pc
  /\ UNCHANGED << snapStatus, snapMsg, pc, now, jobID, srvStatus, srvDetails,
                  srvDeleted, lastStatus, polledLate, polledCancelled, waitRes,
                  waitDetails, deleteCalls, asyncDelete, utcmErr, utcmPolicies,
                  epIdx, all, visited, fetched, result, syncErr >>
  /\ UNCHANGED serverVars
  /\ UNCHANGED componentVars

\* the server part at rest: the values CaptureSpec keeps it at
ServerIdle ==
  /\ mainPc = "run"
  /\ listening = TRUE
  /\ bgWg = 1
  /\ doneClosed = FALSE
  /\ graceExpired = FALSE
  /\ selectBranch = ""
  /\ shutdownErr = "unset"
  /\ tasks = [i \in SnapIds |-> IF i = TheSnap THEN 1 ELSE 0]
  /\ retries = [i \in SnapIds |-> 0]
  /\ nextID = MaxSnapshots + 1
  /\ prevCapturing = { }
  /\ recovered = { }

\* handlePolicySnapshotCreate has stored the snapshot and started the goroutine
CaptureInit ==
  /\ snapStatus = [i \in SnapIds |->
                     IF i = TheSnap THEN SnapshotStatusCapturing ELSE "absent"]
  /\ snapMsg = [i \in SnapIds |-> ""]
  /\ ctxCancelled = FALSE
  /\ ServerIdle
  /\ ComponentsIdle
  /\ pc = "create"
  /\ cancelledAt = ""
  /\ now = 0
  /\ jobID = ""
  /\ srvStatus = "none"
  /\ srvDetails = << >>
  /\ srvDeleted = FALSE
  /\ lastStatus = ""
  /\ polledLate = FALSE
  /\ polledCancelled = FALSE
  /\ waitRes = ""
  /\ waitDetails = << >>
  /\ deleteCalls = << >>
  /\ asyncDelete = "none"
  /\ utcmErr = ""
  /\ utcmPolicies = << >>
  /\ epIdx = 1
  /\ all = << >>
  /\ visited = << >>
  /\ fetched = << >>
  /\ result = << >>
  /\ syncErr = "unset"

CaptureNext ==
  \/ UtcmCreate
  \/ ServerProgress
  \/ WaitCheckDeadline
  \/ WaitSelect
  \/ WaitPollStart
  \/ WaitPollReturn
  \/ UtcmAfterWait
  \/ UtcmDownload
  \/ AsyncDelete
  \/ SyncDecide
  \/ LegacyEndpoint
  \/ LegacyReturn
  \/ FinishCapture
  \/ CancelCapture

CaptureSpec == CaptureInit /\ [][CaptureNext]_vars

\* ------------------------------------------------------ the server process
\* the sum of f over the snapshot ids 1 .. n
RECURSIVE SumUpTo(_, _)
SumUpTo(f, n) == IF n = 0 THEN 0 ELSE f[n] + SumUpTo(f, n - 1)

\* the capture goroutines in flight, the retry requests in flight
TaskCount == SumUpTo(tasks, MaxSnapshots)
RetryCount == SumUpTo(retries, MaxSnapshots)

\* the errors SyncPolicies can return: syncPoliciesLegacy ends in return all, nil
SyncPoliciesErrs == { "" }

\* the capture part at rest: the values Spec keeps it at
CaptureIdle ==
  /\ pc = "idle"
  /\ cancelledAt = ""
  /\ now = 0
  /\ jobID = ""
  /\ srvStatus = "none"
  /\ srvDetails = << >>
  /\ srvDeleted = FALSE
  /\ lastStatus = ""
  /\ polledLate = FALSE
  /\ polledCancelled = FALSE
  /\ waitRes = ""
  /\ waitDetails = << >>
  /\ deleteCalls = << >>
  /\ asyncDelete = "none"
  /\ utcmErr = ""
  /\ utcmPolicies = << >>
  /\ epIdx = 1
  /\ all = << >>
  /\ visited = << >>
  /\ fetched = << >>
  /\ result = << >>
  /\ syncErr = "unset"

\* the stores a previous run can have left: ids 1 .. k in any status
PersistedStatuses ==
  { st \in [SnapIds -> { "absent", SnapshotStatusCapturing, SnapshotStatusComplete,
                         SnapshotStatusError }] :
      \A i, j \in SnapIds : (i < j /\ st[i] = "absent") => st[j] = "absent" }

\* the process has started: db.New and server.New have run, nothing else
Init ==
  /\ snapStatus \in PersistedStatuses
  /\ snapMsg = [i \in SnapIds |->
                  IF snapStatus[i] = SnapshotStatusError THEN InterruptedMsg ELSE ""]
  /\ nextID = 1 + Cardinality({ i \in SnapIds : snapStatus[i] # "absent" })
  /\ prevCapturing = { i \in SnapIds : snapStatus[i] = SnapshotStatusCapturing }
  /\ recovered = { }
  /\ ctxCancelled = FALSE
  /\ mainPc = "boot"
  /\ listening = FALSE
  /\ bgWg = 0
  /\ doneClosed = FALSE
  /\ graceExpired = FALSE
  /\ selectBranch = ""
  /\ shutdownErr = "unset"
  /\ tasks = [i \in SnapIds |-> 0]
  /\ retries = [i \in SnapIds |-> 0]
  /\ CaptureIdle
  /\ ComponentsIdle

\* StartBackgroundJobs: the stale-capturing sweep, run by main before Start
StartBackgroundJobs ==
  /\ mainPc = "boot"
  /\ recovered' = { i \in SnapIds : snapStatus[i] = SnapshotStatusCapturing }
  /\ WriteStore(RecoverStaleCapturing(Store))
  /\ mainPc' = "started"
  /\ UNCHANGED << ctxCancelled, listening, bgWg, doneClosed, graceExpired,
                  selectBranch, shutdownErr, tasks, retries, nextID,
                  prevCapturing >>
  /\ UNCHANGED captureVars
  /\ UNCHANGED componentVars

\* variant of StartListener: the listener is started without waiting for the sweep
StartListenerAnyTime ==
  /\ mainPc \in { "boot", "started" }
  /\ ~listening
  /\ listening' = TRUE
  /\ mainPc' = IF mainPc = "started" THEN "run" ELSE mainPc
  /\ UNCHANGED << snapStatus, snapMsg, ctxCancelled, bgWg, doneClosed,
                  graceExpired, selectBranch, shutdownErr, tasks, retries,
                  nextID, prevCapturing, recovered >>
  /\ UNCHANGED captureVars
  /\ UNCHANGED componentVars

\* main: go srv.Start(), after StartBackgroundJobs has returned
StartListener ==
  /\ mainPc = "started"
  /\ ~listening
  /\ listening' = TRUE
  /\ mainPc' = "run"
  /\ UNCHANGED << snapStatus, snapMsg, ctxCancelled, bgWg, doneClosed,
                  graceExpired, selectBranch, shutdownErr, tasks, retries,
                  nextID, prevCapturing, recovered >>
  /\ UNCHANGED captureVars
  /\ UNCHANGED componentVars

\* handlePolicySnapshotCreate for a policy-capable tenant (the early returns
\* change nothing): store the snapshot as capturing, start the capture
SnapshotCreate ==
  /\ listening
  /\ nextID <= MaxSnapshots
  /\ TaskCount < MaxTasks
  /\ snapStatus' = [snapStatus EXCEPT ![nextID] = SnapshotStatusCapturing]
  /\ snapMsg' = [snapMsg EXCEPT ![nextID] = ""]
  /\ nextID' = nextID + 1
  /\ bgWg' = bgWg + 1
  /\ tasks' = [tasks EXCEPT ![nextID] = @ + 1]
  /\ UNCHANGED << ctxCancelled, mainPc, listening, doneClosed, graceExpired,
                  selectBranch, shutdownErr, retries, prevCapturing, recovered >>
  /\ UNCHANGED captureVars
  /\ UNCHANGED componentVars

\* the goroutine of a capture ends: SyncPolicies has returned, runSnapshotCapture
\* writes the status, then bgWg.Done()
RunSnapshotCapture(id) ==
  /\ mainPc # "exited"
  /\ tasks[id] > 0
  /\ \E e \in SyncPoliciesErrs :
       WriteStore(FinishStore(Store, id, CaptureOutcome(e, ctxCancelled)))
  /\ bgWg' = bgWg - 1
  /\ tasks' = [tasks EXCEPT ![id] = @ - 1]
  /\ UNCHANGED << ctxCancelled, mainPc, listening, doneClosed, graceExpired,
                  selectBranch, shutdownErr, retries, nextID, prevCapturing,
                  recovered >>
  /\ UNCHANGED captureVars
  /\ UNCHANGED componentVars

\* handlePolicySnapshotRetry up to the PolicyProvider assertion: the request
\* goes on only for an error snapshot whose tenant builds a policy provider
RetryCheck(id) ==
  /\ listening
  /\ RetryCount < MaxRetries
  /\ \E providerOK \in BOOLEAN :
       IF snapStatus[id] = SnapshotStatusError /\ providerOK
         THEN retries' = [retries EXCEPT ![id] = @ + 1]
         ELSE UNCHANGED retries
  /\ UNCHANGED << snapStatus, snapMsg, ctxCancelled, mainPc, listening, bgWg,
                  doneClosed, graceExpired, selectBranch, shutdownErr, tasks,
                  nextID, prevCapturing, recovered >>
  /\ UNCHANGED captureVars
  /\ UNCHANGED componentVars

\* handlePolicySnapshotRetry from ResetSnapshotForRetry on: reset, start the capture
RetryReset(id) ==
  /\ mainPc # "exited"
  /\ retries[id] > 0
  /\ TaskCount < MaxTasks
  /\ WriteStore(ResetSnapshotForRetry(Store, id))
  /\ bgWg' = bgWg + 1
  /\ tasks' = [tasks EXCEPT ![id] = @ + 1]
  /\ retries' = [retries EXCEPT ![id] = @ - 1]
  /\ UNCHANGED << ctxCancelled, mainPc, listening, doneClosed, graceExpired,
                  selectBranch, shutdownErr, nextID, prevCapturing, recovered >>
  /\ UNCHANGED captureVars
  /\ UNCHANGED componentVars

\* main receives the signal and calls Shutdown: s.shutdownCancel(), then the
\* goroutine that waits on bgWg is started
ShutdownBegin ==
  /\ mainPc = "run"
  /\ ctxCancelled' = TRUE
  /\ mainPc' = "shutdownWait"
  /\ UNCHANGED << snapStatus, snapMsg, listening, bgWg, doneClosed, graceExpired,
                  selectBranch, shutdownErr, tasks, retries, nextID,
                  prevCapturing, recovered >>
  /\ UNCHANGED captureVars
  /\ UNCHANGED componentVars

\* Shutdown's goroutine: s.bgWg.Wait(); close(done)
WaiterDone ==
  /\ mainPc \in { "shutdownWait", "httpShutdown" }
  /\ ~doneClosed
  /\ bgWg = 0
  /\ doneClosed' = TRUE
  /\ UNCHANGED << snapStatus, snapMsg, ctxCancelled, mainPc, listening, bgWg,
                  graceExpired, selectBranch, shutdownErr, tasks, retries,
                  nextID, prevCapturing, recovered >>
  /\ UNCHANGED captureVars
  /\ UNCHANGED componentVars

\* the 10 s context main gave to Shutdown expires
GraceExpire ==
  /\ mainPc \in { "shutdownWait", "httpShutdown" }
  /\ ~graceExpired
  /\ graceExpired' = TRUE
  /\ UNCHANGED << snapStatus, snapMsg, ctxCancelled, mainPc, listening, bgWg,
                  doneClosed, selectBranch, shutdownErr, tasks, retries,
                  nextID, prevCapturing, recovered >>
  /\ UNCHANGED captureVars
  /\ UNCHANGED componentVars

\* Shutdown: select { <-done | <-ctx.Done() }, then s.http.Shutdown(ctx) closes
\* the listener
ShutdownSelect ==
  /\ mainPc = "shutdownWait"
  /\ \/ doneClosed /\ selectBranch' = "done"
     \/ graceExpired /\ selectBranch' = "timeout"
  /\ mainPc' = "httpShutdown"
  /\ listening' = FALSE
  /\ UNCHANGED << snapStatus, snapMsg, ctxCancelled, bgWg, doneClosed,
                  graceExpired, shutdownErr, tasks, retries, nextID,
                  prevCapturing, recovered >>
  /\ UNCHANGED captureVars
  /\ UNCHANGED componentVars

\* s.http.Shutdown(ctx) returns: nil once no request is in flight, ctx.Err()
\* once ctx has expired; main then exits
ShutdownReturn ==
  /\ mainPc = "httpShutdown"
  /\ \/ /\ RetryCount = 0
        /\ shutdownErr' = ""
     \/ /\ RetryCount > 0
        /\ graceExpired
        /\ shutdownErr' = "context deadline exceeded"
  /\ mainPc' = "exited"
  /\ UNCHANGED << snapStatus, snapMsg, ctxCancelled, listening, bgWg, doneClosed,
                  graceExpired, selectBranch, tasks, retries, nextID,
                  prevCapturing, recovered >>
  /\ UNCHANGED captureVars
  /\ UNCHANGED componentVars

Next ==
  \/ StartBackgroundJobs
  \/ StartListener
  \/ SnapshotCreate
  \/ \E id \in SnapIds : RunSnapshotCapture(id)
  \/ \E id \in SnapIds : RetryCheck(id)
  \/ \E id \in SnapIds : RetryReset(id)
  \/ ShutdownBegin
  \/ WaiterDone
  \/ GraceExpire
  \/ ShutdownSelect
  \/ ShutdownReturn

Spec == Init /\ [][Next]_vars

\* ------------------------------------------------------ the credential cache
\* the capture and the server at rest: the values the component
\* specifications keep them at
CoreIdle ==
  /\ snapStatus = [i \in SnapIds |-> "absent"]
  /\ snapMsg = [i \in SnapIds |-> ""]
  /\ ctxCancelled = FALSE
  /\ mainPc = "run"
  /\ listening = TRUE
  /\ bgWg = 0
  /\ doneClosed = FALSE
  /\ graceExpired = FALSE
  /\ selectBranch = ""
  /\ shutdownErr = "unset"
  /\ tasks = [i \in SnapIds |-> 0]
  /\ retries = [i \in SnapIds |-> 0]
  /\ nextID = 1
  /\ prevCapturing = { }
  /\ recovered = { }
  /\ CaptureIdle

\* one step of the model's clock
TickStep == safetyMargin \div 2

\* the expires_in values the identity provider answers with
ExpiresInValues == { safetyMargin, 2 * safetyMargin }

\* what fetchToken can come back with: a token and its lifetime, or an error
FetchOutcomes ==
  { [kind |-> "ok", expiresIn |-> e] : e \in ExpiresInValues }
    \cup { [kind |-> k, expiresIn |-> 0] :
             k \in { "token request", "token error", "empty access token" } }

\* variant of Fresh: the token is used until the instant it expires
FreshNoMargin == tcToken # 0 /\ clock < tcExpires

\* Token: tc.token != "" && time.Now().Before(tc.expires.Add(-2*time.Minute))
Fresh == tcToken # 0 /\ clock < tcExpires - safetyMargin

\* a caller invokes Token() and waits for tc.mu
TokenCall(c) ==
  /\ callers[c].pc = "idle"
  /\ callers' = [callers EXCEPT ![c] =
                   [NoCall EXCEPT !.pc = "lock", !.arrivedAt = exchanges,
                                  !.arrivedTok = tcToken,
                                  !.arrivedStale = ~Fresh]]
  /\ UNCHANGED << tcToken, tcExpires, tcMu, clock, exchanges >>
  /\ UNCHANGED exceptToken

\* variant of TokenEnter: the cache is read and refreshed without tc.mu
TokenEnterUnlocked(c) ==
  /\ callers[c].pc = "lock"
  /\ IF Fresh
       THEN /\ callers' = [callers EXCEPT ![c].pc = "done", ![c].hit = TRUE,
                                          ![c].entTok = tcToken,
                                          ![c].entExp = tcExpires,
                                          ![c].ret = tcToken]
            /\ UNCHANGED << tcMu, exchanges >>
       ELSE /\ exchanges < MaxExchanges
            /\ exchanges' = exchanges + 1
            /\ UNCHANGED tcMu
            /\ callers' = [callers EXCEPT ![c].pc = "fetching", ![c].exch = 1,
                                          ![c].entTok = tcToken,
                                          ![c].entExp = tcExpires,
                                          ![c].no = exchanges + 1]
  /\ UNCHANGED << tcToken, tcExpires, clock >>
  /\ UNCHANGED exceptToken

\* Token: tc.mu.Lock(), then the cached token is returned or fetchToken is called
TokenEnter(c) ==
  /\ callers[c].pc = "lock"
  /\ tcMu = 0
  /\ IF Fresh
       THEN /\ callers' = [callers EXCEPT ![c].pc = "done", ![c].hit = TRUE,
                                          ![c].entTok = tcToken,
                                          ![c].entExp = tcExpires,
                                          ![c].ret = tcToken]
            /\ UNCHANGED << tcMu, exchanges >>
       ELSE /\ exchanges < MaxExchanges
            /\ exchanges' = exchanges + 1
            /\ tcMu' = c
            /\ callers' = [callers EXCEPT ![c].pc = "fetching", ![c].exch = 1,
                                          ![c].entTok = tcToken,
                                          ![c].entExp = tcExpires,
                                          ![c].no = exchanges + 1]
  /\ UNCHANGED << tcToken, tcExpires, clock >>
  /\ UNCHANGED exceptToken

\* variant of TokenFetchReturn: a failed exchange clears the cached token
TokenFetchReturnClears(c) ==
  /\ callers[c].pc = "fetching"
  /\ \E out \in FetchOutcomes :
       IF out.kind = "ok"
         THEN /\ tcToken' = callers[c].no
              /\ tcExpires' = clock + out.expiresIn
              /\ callers' = [callers EXCEPT ![c].pc = "done",
                                            ![c].ret = callers[c].no,
                                            ![c].expiresIn = out.expiresIn]
         ELSE /\ tcToken' = 0
              /\ tcExpires' = 0
              /\ callers' = [callers EXCEPT ![c].pc = "done", ![c].err = out.kind]
  /\ tcMu' = 0
  /\ UNCHANGED << clock, exchanges >>
  /\ UNCHANGED exceptToken

\* Token after fetchToken: on an error return it, else store token and expiry;
\* the deferred tc.mu.Unlock() runs
TokenFetchReturn(c) ==
  /\ callers[c].pc = "fetching"
  /\ \E out \in FetchOutcomes :
       IF out.kind = "ok"
         THEN /\ tcToken' = callers[c].no
              /\ tcExpires' = clock + out.expiresIn
              /\ callers' = [callers EXCEPT ![c].pc = "done",
                                            ![c].ret = callers[c].no,
                                            ![c].expiresIn = out.expiresIn]
         ELSE /\ UNCHANGED << tcToken, tcExpires >>
              /\ callers' = [callers EXCEPT ![c].pc = "done", ![c].err = out.kind]
  /\ tcMu' = 0
  /\ UNCHANGED << clock, exchanges >>
  /\ UNCHANGED exceptToken

\* the caller has its answer and is free to call again
TokenDone(c) ==
  /\ callers[c].pc = "done"
  /\ callers' = [callers EXCEPT ![c] = NoCall]
  /\ UNCHANGED << tcToken, tcExpires, tcMu, clock, exchanges >>
  /\ UNCHANGED exceptToken

\* time passes
Tick ==
  /\ clock < MaxTicks * TickStep
  /\ clock' = clock + TickStep
  /\ UNCHANGED << tcToken, tcExpires, tcMu, exchanges, callers >>
  /\ UNCHANGED exceptToken

TokenInit == CoreIdle /\ TokenIdle /\ DiffIdle /\ LaterIdle

TokenNext ==
  \/ \E c \in Callers : TokenCall(c)
  \/ \E c \in Callers : TokenEnter(c)
  \/ \E c \in Callers : TokenFetchReturn(c)
  \/ \E c \in Callers : TokenDone(c)
  \/ Tick

TokenSpec == TokenInit /\ [][TokenNext]_vars

\* ------------------------------------------------------------ the diff engine
\* the values json.Unmarshal puts into a map[string]any: nil, string, bool,
\* float64 (whole numbers here), and nested values by their serialisation
jsonNull == [t |-> "null", s |-> "", n |-> 0, b |-> FALSE]

jsonString(x) == [t |-> "string", s |-> x, n |-> 0, b |-> FALSE]

jsonBool(x) == [t |-> "bool", s |-> "", n |-> 0, b |-> x]

jsonNumber(x) == [t |-> "number", s |-> "", n |-> x, b |-> FALSE]

\* variant of formatSettingValue: every value is serialised as JSON, so a
\* string keeps its quotes and nil is null
formatSettingValueMarshal(v) ==
  CASE v.t = "null" -> "null"
    [] v.t = "string" -> "\"" \o v.s \o "\""
    [] v.t = "bool" -> IF v.b THEN "true" ELSE "false"
    [] v.t = "number" -> ToString(v.n)
    [] OTHER -> v.s

\* formatSettingValue: nil is "", a string is itself, a bool is true/false, a
\* whole float64 is printed with %d, anything else is json.Marshal'ed
formatSettingValue(v) ==
  CASE v.t = "null" -> ""
    [] v.t = "string" -> v.s
    [] v.t = "bool" -> IF v.b THEN "true" ELSE "false"
    [] v.t = "number" -> ToString(v.n)
    [] OTHER -> v.s

\* a settings_json text is represented by the JSON object it holds;
\* parseSettingsMap unmarshals it into that object's map
parseSettingsMap(jsonStr) == [k \in DOMAIN jsonStr |-> jsonStr[k]]

\* the setting names of the model, in the order of sort.Strings
SettingNames ==
  << "DisplayName", "Id", "Identity", "Name", "displayName", "enabled", "id",
     "minLength", "name" >>

\* leftMap[k] of a map[string]any: nil when the key is missing
mapValue(m, k) == IF k \in DOMAIN m THEN m[k] ELSE jsonNull

\* variant of diffSettings: only the keys of the left map are walked
diffSettingsLeftKeys(leftJSON, rightJSON) ==
  LET leftMap == parseSettingsMap(leftJSON)
      rightMap == parseSettingsMap(rightJSON)
      InAll(k) == k \in DOMAIN leftMap
      keys == SelectSeq(SettingNames, InAll)
      row(k) == LET lv == formatSettingValue(mapValue(leftMap, k))
                    rv == formatSettingValue(mapValue(rightMap, k))
                IN  [Name |-> k, LeftValue |-> lv, RightValue |-> rv,
                     Changed |-> lv # rv]
      rows == [i \in 1 .. Len(keys) |-> row(keys[i])]
  IN  [diffs |-> rows,
       allMatch |-> \A i \in 1 .. Len(rows) : ~rows[i].Changed]

\* diffSettings: one SettingDiff per key of either map, keys sorted
diffSettings(leftJSON, rightJSON) ==
  LET leftMap == parseSettingsMap(leftJSON)
      rightMap == parseSettingsMap(rightJSON)
      InAll(k) == k \in DOMAIN leftMap \cup DOMAIN rightMap
      keys == SelectSeq(SettingNames, InAll)
      row(k) == LET lv == formatSettingValue(mapValue(leftMap, k))
                    rv == formatSettingValue(mapValue(rightMap, k))
                IN  [Name |-> k, LeftValue |-> lv, RightValue |-> rv,
                     Changed |-> lv # rv]
      rows == [i \in 1 .. Len(keys) |-> row(keys[i])]
  IN  [diffs |-> rows,
       allMatch |-> \A i \in 1 .. Len(rows) : ~rows[i].Changed]

\* computeDiff: policyKey{Name, Category, PolicyType, Platform}
policyKey(item) ==
  << item.PolicyName, item.Category, item.PolicyType, item.Platform >>

\* computeDiff: rightIndex[key] = item, a later item replacing an earlier one
rightIndex(items) ==
  LET last(k) == CHOOSE i \in DOMAIN items :
                   /\ policyKey(items[i]) = k
                   /\ \A j \in DOMAIN items : j > i => policyKey(items[j]) # k
  IN  [k \in { policyKey(items[i]) : i \in DOMAIN items } |-> items[last(k)]]

\* variant of compareLeft: a left record without a right match is compared
\* with an empty settings payload
compareLeftNoLeftOnly(left, items) ==
  LET idx == rightIndex(items)
      key == policyKey(left)
      sd == diffSettings(left.SettingsJSON,
                         IF key \in DOMAIN idx THEN idx[key].SettingsJSON
                                               ELSE << >>)
  IN  [PolicyName |-> left.PolicyName, Category |-> left.Category,
       Platform |-> left.Platform,
       Status |-> IF sd.allMatch THEN "matching" ELSE "different",
       SettingDiffs |-> sd.diffs]

\* computeDiff, one turn of the loop over leftItems: the PolicyDiff of a left
\* record (its flattened view settings are left out)
compareLeft(left, items) ==
  LET idx == rightIndex(items)
      key == policyKey(left)
  IN  IF key \notin DOMAIN idx
        THEN [PolicyName |-> left.PolicyName, Category |-> left.Category,
              Platform |-> left.Platform, Status |-> "left-only",
              SettingDiffs |-> << >>]
        ELSE LET sd == diffSettings(left.SettingsJSON, idx[key].SettingsJSON)
             IN  [PolicyName |-> left.PolicyName, Category |-> left.Category,
                  Platform |-> left.Platform,
                  Status |-> IF sd.allMatch THEN "matching" ELSE "different",
                  SettingDiffs |-> sd.diffs]

\* computeDiff, the loop over rightItems: one right-only PolicyDiff per right
\* record whose key no left record has
rightOnly(lefts, rights) ==
  LET matched == { policyKey(lefts[i]) : i \in DOMAIN lefts }
      Unmatched(r) == policyKey(r) \notin matched
      rest == SelectSeq(rights, Unmatched)
  IN  [i \in 1 .. Len(rest) |->
         [PolicyName |-> rest[i].PolicyName, Category |-> rest[i].Category,
          Platform |-> rest[i].Platform, Status |-> "right-only",
          SettingDiffs |-> << >>]]

\* the policy names of the model, in the byte order Go compares strings in
OrderedNames == << "", "Alt name", "Require PIN", "Wi-Fi", "id-1", "id-2" >>

nameLess(a, b) ==
  (CHOOSE i \in DOMAIN OrderedNames : OrderedNames[i] = a)
    < (CHOOSE i \in DOMAIN OrderedNames : OrderedNames[i] = b)

\* computeDiff: statusOrder
statusOrder ==
  ("different" :> 0) @@ ("left-only" :> 1) @@ ("right-only" :> 2)
    @@ ("matching" :> 3)

\* the less function handed to sort.Slice
diffLess(a, b) ==
  \/ statusOrder[a.Status] < statusOrder[b.Status]
  \/ /\ statusOrder[a.Status] = statusOrder[b.Status]
     /\ nameLess(a.PolicyName, b.PolicyName)

\* variant of sortSlice: the slice is left in append order
sortSliceAppendOrder(d) == d

\* sort.Slice on a slice of fewer than 12 elements: insertion sort
RECURSIVE sortSlice(_)
sortSlice(d) ==
  IF Len(d) <= 1
    THEN d
    ELSE LET front == sortSlice(SubSeq(d, 1, Len(d) - 1))
             x == d[Len(d)]
             stops == { j \in 1 .. Len(front) : ~diffLess(x, front[j]) }
             p == IF stops = { } THEN 0
                  ELSE CHOOSE j \in stops : \A k \in stops : k <= j
         IN  SubSeq(front, 1, p) \o << x >> \o SubSeq(front, p + 1, Len(front))

\* the number of entries of a slice of PolicyDiff with one status
CountStatus(d, status) == Cardinality({ i \in DOMAIN d : d[i].Status = status })

\* computeDiff: the stats count every classified record, the diffs keep the
\* ones the filter lets through, sorted
computeDiff(lefts, rights, flt) ==
  LET classified == [i \in 1 .. Len(lefts) |-> compareLeft(lefts[i], rights)]
                      \o rightOnly(lefts, rights)
      Kept(d) == flt = "" \/ flt = d.Status
  IN  [stats |-> [Matching |-> CountStatus(classified, "matching"),
                  Different |-> CountStatus(classified, "different"),
                  LeftOnly |-> CountStatus(classified, "left-only"),
                  RightOnly |-> CountStatus(classified, "right-only")],
       diffs |-> sortSlice(SelectSeq(classified, Kept))]

\* the settings payloads of the model
SettingsPayloads ==
  { "minLength" :> jsonNumber(4),
    "minLength" :> jsonNumber(6),
    ("minLength" :> jsonString("4")) @@ ("enabled" :> jsonBool(TRUE)) }

\* the policy of the comparison scenario
BaseItem ==
  [PolicyName |-> "Require PIN", Category |-> "Compliance",
   PolicyType |-> "iosCompliancePolicy", Platform |-> "iOS",
   SourceID |-> "id-1", SettingsJSON |-> "minLength" :> jsonNumber(4)]

\* the stored records of the model: the scenario's policy with each payload,
\* and one record differing from it in each component of the key
PolicyItems ==
  { [BaseItem EXCEPT !.SettingsJSON = p] : p \in SettingsPayloads }
    \cup { [BaseItem EXCEPT !.PolicyName = "Wi-Fi"],
           [BaseItem EXCEPT !.Category = "Configuration"],
           [BaseItem EXCEPT !.PolicyType = "iosGeneralDeviceConfiguration"],
           [BaseItem EXCEPT !.Platform = "Android"] }

\* what ListItems can return for one snapshot
PolicySets == UNION { [1 .. n -> PolicyItems] : n \in 0 .. MaxPolicies }

\* the filter query parameter
Filters == { "", "different", "left-only", "right-only", "matching" }

\* apiCompareSnapshots and handlePolicyCompare: the diff of the two item lists
CompareSnapshots ==
  /\ diffPc = "input"
  /\ \E flt \in Filters :
       LET r == computeDiff(leftItems, rightItems, flt)
       IN  /\ filter' = flt
           /\ stats' = r.stats
           /\ diffs' = r.diffs
  /\ diffPc' = "compared"
  /\ UNCHANGED << rawLeft, rawRight, normPath, leftItems, rightItems >>
  /\ UNCHANGED exceptDiff

DiffInit ==
  /\ CoreIdle
  /\ TokenIdle
  /\ LaterIdle
  /\ rawLeft = << >>
  /\ rawRight = << >>
  /\ normPath = ""
  /\ leftItems \in PolicySets
  /\ rightItems \in PolicySets
  /\ filter = ""
  /\ stats = NoStats
  /\ diffs = << >>
  /\ diffPc = "input"

DiffNext == CompareSnapshots

DiffSpec == DiffInit /\ [][DiffNext]_vars

\* the values one setting can hold in a settings_json of the model
SettingValues ==
  { jsonNull, jsonString(""), jsonString("true"), jsonString("false"),
    jsonBool(TRUE), jsonBool(FALSE), jsonString("1"), jsonNumber(1),
    jsonString("4"), jsonNumber(4) }

\* settings_json texts over two setting names, either of which may be missing
ComparedPayloads ==
  UNION { [ks -> SettingValues] : ks \in SUBSET { "enabled", "minLength" } }

\* two snapshots that hold the scenario's policy once each, the settings of
\* either side drawn from ComparedPayloads
SettingsInit ==
  /\ CoreIdle
  /\ TokenIdle
  /\ LaterIdle
  /\ rawLeft = << >>
  /\ rawRight = << >>
  /\ normPath = ""
  /\ leftItems \in { << [BaseItem EXCEPT !.SettingsJSON = q] >> : q \in ComparedPayloads }
  /\ rightItems \in { << [BaseItem EXCEPT !.SettingsJSON = q] >> : q \in ComparedPayloads }
  /\ filter = ""
  /\ stats = NoStats
  /\ diffs = << >>
  /\ diffPc = "input"

SettingsSpec == SettingsInit /\ [][DiffNext]_vars

\* ------------------------------------------------------------ the normalizers
\* stringField: the value under key when it is a non-empty string
stringField(m, key) ==
  IF key \in DOMAIN m /\ m[key].t = "string" /\ m[key].s # ""
    THEN [v |-> m[key].s, ok |-> TRUE]
    ELSE [v |-> "", ok |-> FALSE]

\* the first of the keys that stringField finds, "" when none is found
firstStringField(m, keys) ==
  LET found == { i \in DOMAIN keys : stringField(m, keys[i]).ok }
  IN  IF found = { } THEN ""
      ELSE stringField(m, keys[CHOOSE i \in found : \A j \in found : i <= j]).v

\* utcmIntuneResources: the entry of the resource type the model exports
utcmMeta ==
  [ResourceType |-> "microsoft.intune.deviceCompliancePolicyiOS",
   Category |-> "Compliance", Platform |-> "iOS"]

\* shortResourceType: strings.CutPrefix(rt, "microsoft.intune."), on the
\* resource type names of the model
shortResourceType(rt) ==
  CASE rt = "microsoft.intune.deviceCompliancePolicyiOS" -> "deviceCompliancePolicyiOS"
    [] rt = "microsoft.intune.roleDefinition" -> "roleDefinition"
    [] rt = "microsoft.intune.windowsFirewallRule" -> "windowsFirewallRule"
    [] OTHER -> rt

\* guessPlatformFromUTCM, on the platform texts of the model
guessPlatformFromUTCM(platform) ==
  CASE platform = "windows10AndLater" -> "Windows"
    [] platform = "iOS" -> "iOS"
    [] platform = "android" -> "Android"
    [] OTHER -> ""

\* buildUTCMSettingsJSON: every property but @odata.type, @odata.context, Ensure
buildUTCMSettingsJSON(instance) ==
  [k \in DOMAIN instance \ { "@odata.type", "@odata.context", "Ensure" } |->
     instance[k]]

\* utcmInstanceToSyncPolicy
utcmInstanceToSyncPolicy(instance, meta) ==
  LET platform == stringField(instance, "Platform")
      platforms == stringField(instance, "Platforms")
      p1 == IF platform.ok /\ guessPlatformFromUTCM(platform.v) # ""
              THEN guessPlatformFromUTCM(platform.v) ELSE meta.Platform
      p2 == IF platforms.ok /\ guessPlatformFromUTCM(platforms.v) # ""
              THEN guessPlatformFromUTCM(platforms.v) ELSE p1
  IN  [PolicyName |->
         firstStringField(instance, << "DisplayName", "displayName", "Name" >>),
       Category |-> meta.Category,
       PolicyType |-> shortResourceType(meta.ResourceType),
       Platform |-> p2,
       SourceID |-> firstStringField(instance, << "Identity", "Id", "id" >>),
       SettingsJSON |-> buildUTCMSettingsJSON(instance)]

\* json.Unmarshal into a string field of the common struct: "" when the key
\* is missing or null
commonField(raw, key) ==
  IF key \in DOMAIN raw /\ raw[key].t = "string" THEN raw[key].s ELSE ""

\* guessPlatformFromField, on the platform texts of the model
guessPlatformFromField(platforms) ==
  CASE platforms = "iOS" -> "iOS"
    [] platforms = "android" -> "Android"
    [] OTHER -> ""

\* guessPlatform, on the OData types of the model
guessPlatform(odataType, category) ==
  IF odataType = "#microsoft.graph.iosCompliancePolicy" THEN "iOS" ELSE ""

\* cleanODataType: the part after the last dot
cleanODataType(t) ==
  IF t = "#microsoft.graph.iosCompliancePolicy" THEN "iosCompliancePolicy" ELSE t

\* buildSettingsJSON: the keys that are dropped; the @odata and @microsoft
\* prefixes are listed by the keys of the model that carry them
skipKeys ==
  { "id", "createdDateTime", "lastModifiedDateTime", "version",
    "roleScopeTagIds", "creationSource", "@odata.type", "@odata.context" }

buildSettingsJSON(raw) == [k \in DOMAIN raw \ skipKeys |-> raw[k]]

\* parsePolicyItem
parsePolicyItem(raw, category) ==
  LET ID == commonField(raw, "id")
      DisplayName == commonField(raw, "displayName")
      Name == commonField(raw, "name")
      ODataType == commonField(raw, "@odata.type")
      name == IF DisplayName # "" THEN DisplayName
              ELSE IF Name # "" THEN Name ELSE ID
      byField == guessPlatformFromField(commonField(raw, "platforms"))
      byType == guessPlatformFromField(commonField(raw, "platformType"))
      platform == IF byField # "" THEN byField
                  ELSE IF byType # "" THEN byType
                  ELSE guessPlatform(ODataType, category)
  IN  [PolicyName |-> name,
       Category |-> category,
       PolicyType |-> cleanODataType(ODataType),
       Platform |-> platform,
       SourceID |-> ID,
       SettingsJSON |-> buildSettingsJSON(raw)]

\* a raw record with or without one string property
Optional(field, values) ==
  { << >> } \cup { field :> jsonString(v) : v \in values }

\* the raw records an export returns: the configured value, the Ensure marker,
\* and any of the identifier and display-name properties
ExportRecords ==
  { (("minLength" :> jsonNumber(4)) @@ ("Ensure" :> jsonString("Present")))
      @@ i @@ d @@ n :
      i \in UNION { Optional(f, { "", "id-1" }) : f \in { "Identity", "Id", "id" } },
      d \in Optional("DisplayName", { "", "Require PIN" }),
      n \in Optional("Name", { "Alt name" }) }

\* the raw records a Graph endpoint returns
EndpointRecords ==
  { (("minLength" :> jsonNumber(4))
       @@ ("@odata.type" :> jsonString("#microsoft.graph.iosCompliancePolicy")))
      @@ i @@ d @@ n :
      i \in Optional("id", { "", "id-1" }),
      d \in Optional("displayName", { "", "Require PIN" }),
      n \in Optional("name", { "Alt name" }) }

\* the same raw record with another value of its identifier property
Reidentified(raw) ==
  { [k \in DOMAIN raw |->
       IF k \in { "Identity", "Id", "id" } /\ raw[k].s # ""
         THEN jsonString("id-2") ELSE raw[k]] }

\* policyEndpoints: the category of the endpoint the model fetches
endpointCategory == "Compliance Policies"

\* utcmResultToSyncPolicies and runSnapshotCapture: both captures taken on the
\* export path are normalised and stored
NormalizeExport ==
  /\ diffPc = "raw"
  /\ normPath = "export"
  /\ leftItems' = << utcmInstanceToSyncPolicy(rawLeft, utcmMeta) >>
  /\ rightItems' = << utcmInstanceToSyncPolicy(rawRight, utcmMeta) >>
  /\ diffPc' = "input"
  /\ UNCHANGED << rawLeft, rawRight, normPath, filter, stats, diffs >>
  /\ UNCHANGED exceptDiff

\* fetchPolicyEndpoint and runSnapshotCapture: both captures taken on the
\* per-endpoint path are normalised and stored
NormalizeEndpoint ==
  /\ diffPc = "raw"
  /\ normPath = "endpoint"
  /\ leftItems' = << parsePolicyItem(rawLeft, endpointCategory) >>
  /\ rightItems' = << parsePolicyItem(rawRight, endpointCategory) >>
  /\ diffPc' = "input"
  /\ UNCHANGED << rawLeft, rawRight, normPath, filter, stats, diffs >>
  /\ UNCHANGED exceptDiff

NormInit ==
  /\ CoreIdle
  /\ TokenIdle
  /\ LaterIdle
  /\ normPath \in { "export", "endpoint" }
  /\ rawLeft \in IF normPath = "export" THEN ExportRecords ELSE EndpointRecords
  /\ rawRight \in { rawLeft } \cup Reidentified(rawLeft)
  /\ leftItems = << >>
  /\ rightItems = << >>
  /\ filter = ""
  /\ stats = NoStats
  /\ diffs = << >>
  /\ diffPc = "raw"

NormNext ==
  \/ NormalizeExport
  \/ NormalizeEndpoint
  \/ CompareSnapshots

NormSpec == NormInit /\ [][NormNext]_vars

\* ------------------------------------------------------------ health checks
\* checkAllProviders up to wg.Wait(): ListEnabled, then one goroutine per config
RoundStart ==
  /\ pollPc \in { "initial", "ticking" }
  /\ rounds < MaxRounds
  /\ LET configs == { t \in Tenants : hEnabled[t] }
     IN  /\ roundSet' = configs
         /\ wg' = Cardinality(configs)
         /\ hCheck' = [t \in Tenants |->
                         IF t \in configs
                           THEN [hCheck[t] EXCEPT !["round"] =
                                                    [pc |-> "start", cfgFails |-> 0]]
                           ELSE hCheck[t]]
         /\ pollPc' = IF configs = { } THEN "ticking" ELSE "round"
         /\ rounds' = IF configs = { } THEN rounds + 1 ELSE rounds
  /\ roundOutcome' = [t \in Tenants |-> ""]
  /\ UNCHANGED << hEnabled, hFails, hStatus, manuals, failedSince >>
  /\ UNCHANGED idpSilent
  /\ UNCHANGED exceptHealth

\* variant of ManualCheck: the handler itself marks the provider unchecked
ManualCheckMarksStatus(t) ==
  /\ manuals < MaxManualChecks
  /\ hCheck[t]["manual"].pc = "idle"
  /\ hCheck' = [hCheck EXCEPT ![t]["manual"] = [pc |-> "start", cfgFails |-> 0]]
  /\ manuals' = manuals + 1
  /\ hStatus' = [hStatus EXCEPT ![t] = "unchecked"]
  /\ UNCHANGED << hEnabled, hFails, pollPc, roundSet, wg, rounds,
                  failedSince, roundOutcome >>
  /\ UNCHANGED idpSilent
  /\ UNCHANGED exceptHealth

\* handleProviderTest: CheckProviderNow for any configured provider
ManualCheck(t) ==
  /\ manuals < MaxManualChecks
  /\ hCheck[t]["manual"].pc = "idle"
  /\ hCheck' = [hCheck EXCEPT ![t]["manual"] = [pc |-> "start", cfgFails |-> 0]]
  /\ manuals' = manuals + 1
  /\ UNCHANGED << hEnabled, hFails, hStatus, pollPc, roundSet, wg, rounds,
                  failedSince, roundOutcome >>
  /\ UNCHANGED idpSilent
  /\ UNCHANGED exceptHealth

\* handleProviderToggle: SetEnabled(!cfg.Enabled), then an immediate check on
\* enabling and status.Remove on disabling
Toggle(t) ==
  /\ hEnabled' = [hEnabled EXCEPT ![t] = ~hEnabled[t]]
  /\ IF ~hEnabled[t]
       THEN /\ manuals < MaxManualChecks
            /\ hCheck[t]["manual"].pc = "idle"
            /\ hCheck' = [hCheck EXCEPT ![t]["manual"] =
                                          [pc |-> "start", cfgFails |-> 0]]
            /\ manuals' = manuals + 1
            /\ UNCHANGED hStatus
       ELSE /\ hStatus' = [hStatus EXCEPT ![t] = "none"]
            /\ UNCHANGED << hCheck, manuals >>
  /\ UNCHANGED << hFails, pollPc, roundSet, wg, rounds, failedSince, roundOutcome >>
  /\ UNCHANGED idpSilent
  /\ UNCHANGED exceptHealth

\* checkProvider up to buildProvider: the status is set to checking and the
\* config is read with GetByName
CheckLoad(t, o) ==
  /\ hCheck[t][o].pc = "start"
  /\ hStatus' = [hStatus EXCEPT ![t] = "checking"]
  /\ hCheck' = [hCheck EXCEPT ![t][o] = [pc |-> "loaded", cfgFails |-> hFails[t]]]
  /\ UNCHANGED << hEnabled, hFails, pollPc, roundSet, wg, rounds, manuals,
                  failedSince, roundOutcome >>
  /\ UNCHANGED idpSilent
  /\ UNCHANGED exceptHealth

\* ProviderConfig.Type of the providers of the model
providerType == ("intune-corp" :> "intune") @@ ("uem-anz" :> "uem")

\* the outcomes of buildProvider followed by TestConnection: buildProvider
\* fails for every type but intune, and for intune it cannot fail
CheckOutcomes(t) ==
  IF providerType[t] = "intune" THEN { "ok", "connection failed" }
  ELSE { "build failed" }

\* TestConnection returns: tokens.Token() has no deadline of its own and
\* does not look at ctx, so it returns when http.Post does - when the
\* identity provider answers or the transport fails
ProbeReturns(t) == providerType[t] = "intune" => ~idpSilent

\* variant of CheckRecord: a provider that keeps failing is disabled
CheckRecordDisables(t, o) ==
  /\ hCheck[t][o].pc = "loaded"
  /\ ProbeReturns(t)
  /\ \E outcome \in CheckOutcomes(t) :
       /\ hStatus' = [hStatus EXCEPT ![t] =
                        IF outcome = "ok" THEN "connected" ELSE "error"]
       /\ hFails' = [hFails EXCEPT ![t] =
                       IF outcome = "ok" THEN 0 ELSE hCheck[t][o].cfgFails + 1]
       /\ hEnabled' = [hEnabled EXCEPT ![t] =
                         IF outcome = "ok" THEN hEnabled[t]
                         ELSE hEnabled[t] /\ hCheck[t][o].cfgFails = 0]
       /\ failedSince' = [failedSince EXCEPT ![t] =
                            IF outcome = "ok" THEN 0 ELSE failedSince[t] + 1]
       /\ IF o = "round"
            THEN /\ wg' = wg - 1
                 /\ roundOutcome' = [roundOutcome EXCEPT ![t] =
                                       IF outcome = "ok" THEN "connected" ELSE "error"]
            ELSE UNCHANGED << wg, roundOutcome >>
  /\ hCheck' = [hCheck EXCEPT ![t][o] = NoCheck]
  /\ UNCHANGED << pollPc, roundSet, rounds, manuals >>
  /\ UNCHANGED idpSilent
  /\ UNCHANGED exceptHealth

\* checkProvider from buildProvider on: the outcome is put into the status
\* map and RecordCheckResult writes consec_fails (cfg.ConsecFails + 1 on a
\* failure, 0 on a success); the deferred wg.Done() of a round's goroutine
CheckRecord(t, o) ==
  /\ hCheck[t][o].pc = "loaded"
  /\ ProbeReturns(t)
  /\ \E outcome \in CheckOutcomes(t) :
       /\ hStatus' = [hStatus EXCEPT ![t] =
                        IF outcome = "ok" THEN "connected" ELSE "error"]
       /\ hFails' = [hFails EXCEPT ![t] =
                       IF outcome = "ok" THEN 0 ELSE hCheck[t][o].cfgFails + 1]
       /\ UNCHANGED hEnabled
       /\ failedSince' = [failedSince EXCEPT ![t] =
                            IF outcome = "ok" THEN 0 ELSE failedSince[t] + 1]
       /\ IF o = "round"
            THEN /\ wg' = wg - 1
                 /\ roundOutcome' = [roundOutcome EXCEPT ![t] =
                                       IF outcome = "ok" THEN "connected" ELSE "error"]
            ELSE UNCHANGED << wg, roundOutcome >>
  /\ hCheck' = [hCheck EXCEPT ![t][o] = NoCheck]
  /\ UNCHANGED << pollPc, roundSet, rounds, manuals >>
  /\ UNCHANGED idpSilent
  /\ UNCHANGED exceptHealth

\* variant of RoundComplete: the round is declared complete without wg.Wait()
RoundCompleteNoWait ==
  /\ pollPc = "round"
  /\ pollPc' = "ticking"
  /\ rounds' = rounds + 1
  /\ UNCHANGED << hEnabled, hFails, hStatus, hCheck, roundSet, wg, manuals,
                  failedSince, roundOutcome >>
  /\ UNCHANGED idpSilent
  /\ UNCHANGED exceptHealth

\* checkAllProviders after wg.Wait(): "Health check complete"
RoundComplete ==
  /\ pollPc = "round"
  /\ wg = 0
  /\ pollPc' = "ticking"
  /\ rounds' = rounds + 1
  /\ UNCHANGED << hEnabled, hFails, hStatus, hCheck, roundSet, wg, manuals,
                  failedSince, roundOutcome >>
  /\ UNCHANGED idpSilent
  /\ UNCHANGED exceptHealth

\* healthPoller: case <-s.stopHealth
PollerStop ==
  /\ pollPc = "ticking"
  /\ pollPc' = "stopped"
  /\ UNCHANGED << hEnabled, hFails, hStatus, hCheck, roundSet, wg, rounds,
                  manuals, failedSince, roundOutcome >>
  /\ UNCHANGED idpSilent
  /\ UNCHANGED exceptHealth

HealthInit == CoreIdle /\ TokenIdle /\ DiffIdle /\ LaterIdle

HealthNext ==
  \/ RoundStart
  \/ \E t \in Tenants : ManualCheck(t)
  \/ \E t \in Tenants : Toggle(t)
  \/ \E t \in Tenants, o \in Origins : CheckLoad(t, o)
  \/ \E t \in Tenants, o \in Origins : CheckRecord(t, o)
  \/ RoundComplete
  \/ PollerStop

HealthSpec == HealthInit /\ [][HealthNext]_vars

\* the identity provider accepts token requests and answers none of them
\* from now on
IdpStopsAnswering ==
  /\ ~idpSilent
  /\ idpSilent' = TRUE
  /\ UNCHANGED << hEnabled, hFails, hStatus, hCheck, pollPc, roundSet, wg, rounds,
                  manuals, failedSince, roundOutcome >>
  /\ UNCHANGED exceptHealth

HealthLiveNext == HealthNext \/ IdpStopsAnswering

\* the steps the program takes on its own are taken: the ticker fires, a
\* started goroutine runs, a probe that returns is recorded
HealthFairness ==
  /\ WF_vars(RoundStart)
  /\ WF_vars(RoundComplete)
  /\ \A t \in Tenants, o \in Origins :
       WF_vars(CheckLoad(t, o)) /\ WF_vars(CheckRecord(t, o))

HealthLiveSpec == HealthInit /\ [][HealthLiveNext]_vars /\ HealthFairness

\* ------------------------------------------------------------ the status map
\* the ProviderStatus values checkProvider builds for a provider
StatusValues(name) ==
  { [Name |-> name, Status |-> "checking", Error |-> "", ConsecFails |-> 0],
    [Name |-> name, Status |-> "connected", Error |-> "", ConsecFails |-> 0],
    [Name |-> name, Status |-> "error", Error |-> "connection failed",
     ConsecFails |-> 1] }

\* what a holder of the map m sees through its pointers: for every entry the
\* field values of the ProviderStatus it points to
Seen(m, heap) == [t \in { u \in DOMAIN m : m[u] # 0 } |-> heap[m[t]]]

\* variant of StatusSet: the fields of the existing entry are overwritten
StatusSetInPlace(name) ==
  /\ \E v \in StatusValues(name) :
       IF stStatuses[name] # 0
         THEN /\ stHeap' = [stHeap EXCEPT ![stStatuses[name]] = v]
              /\ UNCHANGED stStatuses
         ELSE /\ Len(stHeap) < MaxStatusSets
              /\ stHeap' = Append(stHeap, v)
              /\ stStatuses' = [stStatuses EXCEPT ![name] = Len(stHeap) + 1]
  /\ UNCHANGED << rdMap, rdSeen >>
  /\ UNCHANGED exceptStatus

\* checkProvider: s.status.Set(&ProviderStatus{...}) - a new value is
\* allocated and, under st.mu, its pointer replaces the entry of its name
StatusSet(name) ==
  /\ Len(stHeap) < MaxStatusSets
  /\ \E v \in StatusValues(name) :
       /\ stHeap' = Append(stHeap, v)
       /\ stStatuses' = [stStatuses EXCEPT ![name] = Len(stHeap) + 1]
  /\ UNCHANGED << rdMap, rdSeen >>
  /\ UNCHANGED exceptStatus

\* handleProviderToggle: s.status.Remove(name) - delete(st.statuses, name)
StatusRemove(name) ==
  /\ stStatuses[name] # 0
  /\ stStatuses' = [stStatuses EXCEPT ![name] = 0]
  /\ UNCHANGED << stHeap, rdMap, rdSeen >>
  /\ UNCHANGED exceptStatus

\* statusTracker.All: under st.mu.RLock the entries are copied into a new map
StatusAll(r) ==
  /\ rdMap' = [rdMap EXCEPT ![r] =
                 [t \in { u \in Tenants : stStatuses[u] # 0 } |-> stStatuses[t]]]
  /\ rdSeen' = [rdSeen EXCEPT ![r] = Seen(stStatuses, stHeap)]
  /\ UNCHANGED << stStatuses, stHeap >>
  /\ UNCHANGED exceptStatus

StatusInit == CoreIdle /\ TokenIdle /\ DiffIdle /\ LaterIdle

StatusNext ==
  \/ \E t \in Tenants : StatusSet(t)
  \/ \E t \in Tenants : StatusRemove(t)
  \/ \E r \in Readers : StatusAll(r)

StatusSpec == StatusInit /\ [][StatusNext]_vars

\* ------------------------------------------------------------ the device sync
\* the well-formed device lists: a chain of n pages, every device on one page
Sources ==
  { [n |-> n, page |-> f] : n \in 1 .. MaxPages, f \in [DeviceSet -> 1 .. MaxPages] }

WellFormed(src) == \A d \in DeviceSet : src.page[d] <= src.n

\* the "value" array of page i
PageDevices(src, i) ==
  LET onPage(d) == src.page[d] = i
  IN  SelectSeq(Devices, onPage)

\* the "@odata.nextLink" of page i (0 = absent)
NextLink(src, i) == IF i < src.n THEN i + 1 ELSE 0

\* SyncDevices: the first page's URL for the empty cursor, else the cursor
Endpoint(cursor) == IF cursor = 0 THEN 1 ELSE cursor

\* how one SyncDevices call ends: tokens.Token failed, client.Do failed,
\* a status other than 200, a body that does not parse, or a page
CallOutcomes == { "auth failed", "request failed", "bad status", "parse failed", "ok" }

RECURSIVE PagesUpTo(_, _)
\* the records of pages 1..i, in page order
PagesUpTo(src, i) ==
  IF i = 0 THEN << >> ELSE PagesUpTo(src, i - 1) \o PageDevices(src, i)

ToSet(q) == { q[i] : i \in DOMAIN q }

\* handleProviderSync up to the call of syncProvider; buildProvider fails for
\* a provider type other than intune
SyncStart(built) ==
  /\ syPc = "idle"
  /\ IF built
       THEN /\ syPc' = "loop"
            /\ UNCHANGED syFlash
       ELSE /\ syPc' = "failed"
            /\ syFlash' = "http 500"
  /\ UNCHANGED << sySource, syCursor, syTotal, syErr, syRequests, syCallReqs,
                  syLastCall, syUpserts, syStored, syRecorded >>
  /\ UNCHANGED exceptSync

\* variant of SyncIteration: a page that cannot be fetched ends the loop
\* like the last page does
SyncIterationSkipsFailure(outcome) ==
  /\ syPc = "loop"
  /\ outcome \in CallOutcomes
  /\ syLastCall' = outcome
  /\ syCallReqs' = IF outcome = "auth failed" THEN 0 ELSE 1
  /\ syRequests' = IF outcome = "auth failed" THEN syRequests
                   ELSE Append(syRequests, Endpoint(syCursor))
  /\ IF outcome # "ok"
       THEN /\ syPc' = "returned"
            /\ UNCHANGED << syErr, syCursor, syTotal, syUpserts, syStored >>
       ELSE LET devices == PageDevices(sySource, Endpoint(syCursor))
                nextCursor == NextLink(sySource, Endpoint(syCursor))
            IN  /\ syUpserts' = syUpserts \o devices
                /\ \E failing \in SUBSET ToSet(devices) :
                     syStored' = syStored \cup (ToSet(devices) \ failing)
                /\ syTotal' = syTotal + Len(devices)
                /\ IF nextCursor = 0
                     THEN /\ syPc' = "returned"
                          /\ UNCHANGED syCursor
                     ELSE /\ syCursor' = nextCursor
                          /\ UNCHANGED syPc
                /\ UNCHANGED syErr
  /\ UNCHANGED << sySource, syRecorded, syFlash >>
  /\ UNCHANGED exceptSync

\* variant of SyncIteration: the loop ends at the first page without devices
SyncIterationStopsOnEmptyPage(outcome) ==
  /\ syPc = "loop"
  /\ outcome \in CallOutcomes
  /\ syLastCall' = outcome
  /\ syCallReqs' = IF outcome = "auth failed" THEN 0 ELSE 1
  /\ syRequests' = IF outcome = "auth failed" THEN syRequests
                   ELSE Append(syRequests, Endpoint(syCursor))
  /\ IF outcome # "ok"
       THEN /\ syErr' = "sync page: " \o outcome
            /\ syPc' = "returned"
            /\ UNCHANGED << syCursor, syTotal, syUpserts, syStored >>
       ELSE LET devices == PageDevices(sySource, Endpoint(syCursor))
                nextCursor == NextLink(sySource, Endpoint(syCursor))
            IN  /\ syUpserts' = syUpserts \o devices
                /\ \E failing \in SUBSET ToSet(devices) :
                     syStored' = syStored \cup (ToSet(devices) \ failing)
                /\ syTotal' = syTotal + Len(devices)
                /\ IF nextCursor = 0 \/ devices = << >>
                     THEN /\ syPc' = "returned"
                          /\ UNCHANGED syCursor
                     ELSE /\ syCursor' = nextCursor
                          /\ UNCHANGED syPc
                /\ UNCHANGED syErr
  /\ UNCHANGED << sySource, syRecorded, syFlash >>
  /\ UNCHANGED exceptSync

\* syncProvider: one pass of the loop - SyncDevices(ctx, cursor) sends one GET
\* unless no token could be had; an error returns it; else every device of
\* the page goes to devices.Upsert (a failing Upsert is logged and the loop
\* goes on), total grows by the page, and the loop ends on an empty nextCursor
SyncIteration(outcome) ==
  /\ syPc = "loop"
  /\ outcome \in CallOutcomes
  /\ syLastCall' = outcome
  /\ syCallReqs' = IF outcome = "auth failed" THEN 0 ELSE 1
  /\ syRequests' = IF outcome = "auth failed" THEN syRequests
                   ELSE Append(syRequests, Endpoint(syCursor))
  /\ IF outcome # "ok"
       THEN /\ syErr' = "sync page: " \o outcome
            /\ syPc' = "returned"
            /\ UNCHANGED << syCursor, syTotal, syUpserts, syStored >>
       ELSE LET devices == PageDevices(sySource, Endpoint(syCursor))
                nextCursor == NextLink(sySource, Endpoint(syCursor))
            IN  /\ syUpserts' = syUpserts \o devices
                /\ \E failing \in SUBSET ToSet(devices) :
                     syStored' = syStored \cup (ToSet(devices) \ failing)
                /\ syTotal' = syTotal + Len(devices)
                /\ IF nextCursor = 0
                     THEN /\ syPc' = "returned"
                          /\ UNCHANGED syCursor
                     ELSE /\ syCursor' = nextCursor
                          /\ UNCHANGED syPc
                /\ UNCHANGED syErr
  /\ UNCHANGED << sySource, syRecorded, syFlash >>
  /\ UNCHANGED exceptSync

\* handleProviderSync after syncProvider returned: an error is logged and
\* flashed; else the success is logged, recorded and flashed
SyncFinish ==
  /\ syPc = "returned"
  /\ syPc' = "done"
  /\ IF syErr # ""
       THEN /\ syFlash' = "error"
            /\ UNCHANGED syRecorded
       ELSE /\ syFlash' = "success"
            /\ syRecorded' = TRUE
  /\ UNCHANGED << sySource, syCursor, syTotal, syErr, syRequests, syCallReqs,
                  syLastCall, syUpserts, syStored >>
  /\ UNCHANGED exceptSync

SyncInit ==
  /\ CoreIdle /\ TokenIdle /\ DiffIdle /\ HealthIdle /\ StatusIdle /\ DownloadIdle
  /\ ResultIdle /\ ActivityIdle
  /\ sySource \in { src \in Sources : WellFormed(src) }
  /\ SyncFresh

SyncNext ==
  \/ \E built \in BOOLEAN : SyncStart(built)
  \/ \E outcome \in CallOutcomes : SyncIteration(outcome)
  \/ SyncFinish

SyncSpec == SyncInit /\ [][SyncNext]_vars

\* ------------------------------------------------------- the snapshot download
\* An item of a JSON array: a scalar, or an object of which the model keeps
\* its "id" (name), its "resourceType" and "@odata.type" ("" = absent, "#" = a
\* number) and its "instances" ("absent", "string", or "array" of the names
\* of the objects in it).
jsonItem(kind, name, rt, ot, instT, instNames) ==
  [kind |-> kind, name |-> name, rt |-> rt, ot |-> ot, instT |-> instT,
   instNames |-> instNames]

BodyItems ==
  { jsonItem("object", "", "deviceCompliancePolicy", "", "array", << "a" >>),
    jsonItem("object", "", "deviceConfiguration", "", "array", << >>),
    jsonItem("object", "b", "deviceCompliancePolicy", "", "absent", << >>),
    jsonItem("object", "c", "", "#microsoft.graph.windows10", "absent", << >>),
    jsonItem("object", "d", "", "", "absent", << >>),
    jsonItem("object", "e", "#", "", "absent", << >>),
    jsonItem("scalar", "", "", "", "absent", << >>) }

jsonArray(items) == [t |-> "array", items |-> items]

BodyValues ==
  { jsonAbsent, [t |-> "string", items |-> << >>], jsonArray(<< >>) }
    \cup { jsonArray(<< i >>) : i \in BodyItems }
    \cup { jsonArray(<< i, j >>) :
             i \in { jsonItem("object", "b", "deviceCompliancePolicy", "", "absent", << >>) },
             j \in { jsonItem("object", "c", "", "#microsoft.graph.windows10", "absent", << >>),
                     jsonItem("object", "d", "", "", "absent", << >>) } }

\* the member names of a body object, in the order the model lists them
BodyKeys == << "resources", "value", "deviceCompliancePolicy" >>

BodyKeySet == { BodyKeys[i] : i \in DOMAIN BodyKeys }

\* the bodies a resource location can serve: no JSON at all, null, a string,
\* an array, or an object
Bodies ==
  { [top |-> k, members |-> << >>, items |-> << >>] : k \in { "invalid", "null", "string" } }
    \cup { [top |-> "array", members |-> << >>, items |-> v.items] :
             v \in { w \in BodyValues : w.t = "array" } }
    \cup { [top |-> "object", members |-> m, items |-> << >>] :
             m \in [BodyKeySet -> BodyValues] }

\* json.Unmarshal of an item into utcmSnapshotResourceGroup succeeds
groupOk(item) ==
  /\ item.kind = "object"
  /\ item.rt # "#"
  /\ item.instT \in { "absent", "array" }

asGroup(item) == [ResourceType |-> item.rt, Instances |-> item.instNames]

\* json.Unmarshal of a value into []utcmSnapshotResourceGroup succeeds
groupsOk(v) ==
  /\ v.t \in { "absent", "array" }
  /\ \A i \in DOMAIN v.items : groupOk(v.items[i])

asGroups(items) == [i \in DOMAIN items |-> asGroup(items[i])]

\* json.Unmarshal of a value into []map[string]interface{} succeeds
objectsOk(v) ==
  /\ v.t \in { "absent", "array" }
  /\ \A i \in DOMAIN v.items : v.items[i].kind = "object"

namesOf(items) == [i \in DOMAIN items |-> items[i].name]

\* json.Unmarshal(respBytes, &result) with result a utcmSnapshotResult: null
\* and any object whose "resources", if there, is a list of groups succeed
structuredOk(body) ==
  \/ body.top = "null"
  \/ /\ body.top = "object"
     /\ groupsOk(body.members["resources"])

structured(body) ==
  IF body.top = "object" THEN asGroups(body.members["resources"].items) ELSE << >>

\* the members that are there
present(body) ==
  LET there(k) == body.members[k].t # "absent"
  IN  SelectSeq(BodyKeys, there)

\* parseRawSnapshotJSON attempt 3: the resource type of an item
itemType(item) ==
  IF item.rt \notin { "", "#" } THEN item.rt
  ELSE IF item.ot \notin { "", "#" } THEN item.ot
  ELSE "unknown"

\* the resource types attempt 3 groups by, each once, by first appearance
RECURSIVE typesOf(_)
typesOf(items) ==
  IF items = << >> THEN << >>
  ELSE LET front == typesOf(SubSeq(items, 1, Len(items) - 1))
           ty == itemType(items[Len(items)])
       IN  IF \E i \in DOMAIN front : front[i] = ty THEN front ELSE Append(front, ty)

\* parseRawSnapshotJSON: the three attempts in order; the groups of attempts
\* 2 and 3 come out in the order of a Go map, see utcmDownloadSnapshot
parseRawSnapshotJSON(body) ==
  IF body.top = "array" /\ groupsOk(jsonArray(body.items)) /\ Len(body.items) > 0
    THEN [err |-> "", Resources |-> asGroups(body.items), mapOrder |-> FALSE]
  ELSE IF /\ body.top = "object"
          /\ \A k \in BodyKeySet : objectsOk(body.members[k])
          /\ Len(present(body)) > 0
    THEN [err |-> "",
          Resources |-> [i \in DOMAIN present(body) |->
                           [ResourceType |-> present(body)[i],
                            Instances |-> namesOf(body.members[present(body)[i]].items)]],
          mapOrder |-> TRUE]
  ELSE IF /\ body.top = "object"
          /\ objectsOk(body.members["value"])
          /\ Len(body.members["value"].items) > 0
    THEN LET value == body.members["value"].items
             types == typesOf(value)
         IN  [err |-> "",
              Resources |-> [i \in DOMAIN types |->
                               LET ofType(item) == itemType(item) = types[i]
                               IN  [ResourceType |-> types[i],
                                    Instances |-> namesOf(SelectSeq(value, ofType))]],
              mapOrder |-> TRUE]
  ELSE [err |-> "unrecognised snapshot format", Resources |-> << >>, mapOrder |-> FALSE]

\* the orders in which a Go map of n entries can be ranged over
Orders(n) == { f \in [1 .. n -> 1 .. n] : \A i, j \in 1 .. n : f[i] = f[j] => i = j }

\* utcmDownloadSnapshot: an empty location and a failing GET are errors; a
\* body that unmarshals into utcmSnapshotResult is returned as it is; any
\* other body goes to parseRawSnapshotJSON
utcmDownloadSnapshot(location, got) ==
  /\ dlPc = "start"
  /\ dlPc' = "done"
  /\ IF location = ""
       THEN dlErr' = "empty resource location" /\ dlResult' = << >>
     ELSE IF ~got
       THEN dlErr' = "download snapshot" /\ dlResult' = << >>
     ELSE IF structuredOk(dlBody)
       THEN dlErr' = "" /\ dlResult' = structured(dlBody)
     ELSE LET raw == parseRawSnapshotJSON(dlBody)
          IN  IF raw.err # ""
                THEN dlErr' = "parse snapshot (tried structured + raw)" /\ dlResult' = << >>
              ELSE /\ dlErr' = ""
                   /\ IF raw.mapOrder
                        THEN \E f \in Orders(Len(raw.Resources)) :
                               dlResult' = [i \in DOMAIN raw.Resources |-> raw.Resources[f[i]]]
                        ELSE dlResult' = raw.Resources
  /\ UNCHANGED dlBody
  /\ UNCHANGED exceptDownload

DownloadInit ==
  /\ CoreIdle /\ TokenIdle /\ DiffIdle /\ HealthIdle /\ StatusIdle /\ SyncIdle
  /\ ResultIdle /\ ActivityIdle
  /\ dlBody \in Bodies
  /\ DownloadFresh

DownloadNext ==
  \E location \in { "", "https://graph.microsoft.com/snapshot" }, got \in BOOLEAN :
    utcmDownloadSnapshot(location, got)

DownloadSpec == DownloadInit /\ [][DownloadNext]_vars

\* ------------------------------------------- the normalizer of a result
\* utcmIntuneResources: the entries of the model
utcmIntuneResources ==
  << utcmMeta,
     [ResourceType |-> "microsoft.intune.roleDefinition", Category |-> "Roles",
      Platform |-> ""] >>

\* the resource type names a result can carry: the two of the table, and
\* three the table does not have
ResourceTypes ==
  { "microsoft.intune.deviceCompliancePolicyiOS", "microsoft.intune.roleDefinition",
    "microsoft.intune.windowsFirewallRule", "deviceCompliancePolicyWindows10",
    "contoso.kioskProfile" }

\* strings.Contains(strings.ToLower(rt), word): the words a name contains,
\* of those guessUTCMCategory and the platform guesses look for
TypeWords ==
  ("microsoft.intune.deviceCompliancePolicyiOS" :> { "compliance", "ios" })
    @@ ("microsoft.intune.roleDefinition" :> { "role" })
    @@ ("microsoft.intune.windowsFirewallRule" :> { "windows" })
    @@ ("deviceCompliancePolicyWindows10" :> { "compliance", "windows" })
    @@ ("contoso.kioskProfile" :> { })

Contains(rt, word) == word \in TypeWords[rt]

\* utcmResourceIndex[rt]
utcmResourceIndex(rt) ==
  LET hits == { i \in DOMAIN utcmIntuneResources :
                  utcmIntuneResources[i].ResourceType = rt }
  IN  IF hits = { } THEN [ok |-> FALSE, meta |-> utcmMeta]
      ELSE [ok |-> TRUE, meta |-> utcmIntuneResources[CHOOSE i \in hits : TRUE]]

\* guessUTCMCategory
guessUTCMCategory(rt) ==
  CASE Contains(rt, "compliance") -> "Compliance"
    [] Contains(rt, "deviceconfiguration") -> "Configuration Profiles"
    [] \E w \in { "antivirus", "attacksurface", "endpointdetection", "exploit",
                  "accountprotection", "applicationcontrol" } : Contains(rt, w) ->
         "Endpoint Security"
    [] Contains(rt, "appprotection") -> "App Protection"
    [] Contains(rt, "appconfiguration") -> "App Configuration"
    [] Contains(rt, "settingcatalog") -> "Settings Catalog"
    [] Contains(rt, "enrollment") -> "Enrollment"
    [] Contains(rt, "windowsupdate") -> "Windows Update"
    [] Contains(rt, "autopilot") -> "Autopilot"
    [] Contains(rt, "wifi") -> "Configuration Profiles"
    [] Contains(rt, "role") -> "Roles"
    [] OTHER -> "Other"

\* the metadata utcmResultToSyncPolicies uses for a group
groupMeta(rt) ==
  IF utcmResourceIndex(rt).ok THEN utcmResourceIndex(rt).meta
  ELSE [ResourceType |-> rt, Category |-> guessUTCMCategory(rt), Platform |-> ""]

\* the categories of the model, in the byte order Go compares strings in
OrderedCategories == << "Compliance", "Other", "Roles" >>

\* the less function utcmResultToSyncPolicies hands to sort.Slice
policyLess(a, b) ==
  LET rank(c) == CHOOSE i \in DOMAIN OrderedCategories : OrderedCategories[i] = c
  IN  IF a.Category # b.Category
        THEN rank(a.Category) < rank(b.Category)
        ELSE nameLess(a.PolicyName, b.PolicyName)

\* sort.Slice on a slice of fewer than 12 elements: insertion sort
RECURSIVE sortPolicies(_)
sortPolicies(d) ==
  IF Len(d) <= 1
    THEN d
    ELSE LET front == sortPolicies(SubSeq(d, 1, Len(d) - 1))
             x == d[Len(d)]
             stops == { j \in 1 .. Len(front) : ~policyLess(x, front[j]) }
             p == IF stops = { } THEN 0
                  ELSE CHOOSE j \in stops : \A k \in stops : k <= j
         IN  SubSeq(front, 1, p) \o << x >> \o SubSeq(front, p + 1, Len(front))

RECURSIVE groupPolicies(_, _)
\* the policies of the groups 1..n of a result, in append order
groupPolicies(resources, n) ==
  IF n = 0 THEN << >>
  ELSE groupPolicies(resources, n - 1)
         \o [i \in DOMAIN resources[n].Instances |->
               utcmInstanceToSyncPolicy(resources[n].Instances[i],
                                        groupMeta(resources[n].ResourceType))]

\* variant of utcmResultToSyncPolicies: groups of a resource type the table
\* does not have are passed over
utcmResultToSyncPoliciesKnownOnly(resources) ==
  LET known(g) == utcmResourceIndex(g.ResourceType).ok
      kept == SelectSeq(resources, known)
  IN  sortPolicies(groupPolicies(kept, Len(kept)))

\* utcmResultToSyncPolicies: one policy per instance of every group, sorted
\* by category, then name
utcmResultToSyncPolicies(resources) ==
  sortPolicies(groupPolicies(resources, Len(resources)))

\* the instances of a result: with or without a display name, a Platform and
\* a Platforms property
ResultInstances ==
  { ("minLength" :> jsonNumber(4)) @@ d @@ p @@ q :
      d \in Optional("DisplayName", { "Require PIN" }),
      p \in Optional("Platform", { "windows10AndLater", "tvOS" }),
      q \in Optional("Platforms", { "android" }) }

\* the sequences over a set, up to a length
SeqsUpTo(S, n) == UNION { [1 .. k -> S] : k \in 0 .. n }

\* the results: one group of any type, and maybe a second one
Results ==
  { << [ResourceType |-> rt, Instances |-> is] >> \o more :
      rt \in ResourceTypes,
      is \in SeqsUpTo(ResultInstances, MaxInstances),
      more \in { << >> } \cup
               { << [ResourceType |-> rt2, Instances |-> is2] >> :
                   rt2 \in ResourceTypes,
                   is2 \in SeqsUpTo({ ("minLength" :> jsonNumber(4)),
                                      ("minLength" :> jsonNumber(4))
                                        @@ ("Platform" :> jsonString("iOS")) }, 1) } }

\* SyncPoliciesUTCM step 4: policies := utcmResultToSyncPolicies(result)
NormalizeResult ==
  /\ nrPc = "start"
  /\ nrPolicies' = utcmResultToSyncPolicies(nrResult)
  /\ nrPc' = "done"
  /\ UNCHANGED nrResult
  /\ UNCHANGED exceptResult

ResultInit ==
  /\ CoreIdle /\ TokenIdle /\ DiffIdle /\ HealthIdle /\ StatusIdle /\ SyncIdle
  /\ DownloadIdle /\ ActivityIdle
  /\ nrResult \in Results
  /\ ResultFresh

ResultNext == NormalizeResult

ResultSpec == ResultInit /\ [][ResultNext]_vars

\* ------------------------------------------------------------ the activity log
\* a goroutine calls Add (through Logf) with a new event
LogAdd(w) ==
  /\ alWriters[w].pc = "idle"
  /\ alCalls < MaxLogEvents
  /\ alCalls' = alCalls + 1
  /\ alWriters' = [alWriters EXCEPT ![w] = [pc |-> "lock", e |-> alCalls + 1]]
  /\ UNCHANGED << alEvents, alSeq, alMu, alAdded, alAsked, alSeen, alOut >>
  /\ UNCHANGED exceptActivity

\* variant of LogLock: Add goes on without waiting for the mutex
LogLockUnlocked(w) ==
  /\ alWriters[w].pc = "lock"
  /\ alMu' = w
  /\ alWriters' = [alWriters EXCEPT ![w].pc = "evict"]
  /\ UNCHANGED << alEvents, alSeq, alCalls, alAdded, alAsked, alSeen, alOut >>
  /\ UNCHANGED exceptActivity

\* Add: al.mu.Lock()
LogLock(w) ==
  /\ alWriters[w].pc = "lock"
  /\ alMu = 0
  /\ alMu' = w
  /\ alWriters' = [alWriters EXCEPT ![w].pc = "evict"]
  /\ UNCHANGED << alEvents, alSeq, alCalls, alAdded, alAsked, alSeen, alOut >>
  /\ UNCHANGED exceptActivity

\* Add: if len(al.events) >= al.cap { al.events = al.events[1:] }
LogEvict(w) ==
  /\ alWriters[w].pc = "evict"
  /\ alEvents' = IF Len(alEvents) >= MaxLogCapacity THEN Tail(alEvents)
                 ELSE alEvents
  /\ alWriters' = [alWriters EXCEPT ![w].pc = "append"]
  /\ UNCHANGED << alSeq, alMu, alCalls, alAdded, alAsked, alSeen, alOut >>
  /\ UNCHANGED exceptActivity

\* Add: the append, al.seq++ and the deferred Unlock
LogAppend(w) ==
  /\ alWriters[w].pc = "append"
  /\ alEvents' = Append(alEvents, alWriters[w].e)
  /\ alAdded' = Append(alAdded, alWriters[w].e)
  /\ alSeq' = alSeq + 1
  /\ alMu' = 0
  /\ alWriters' = [alWriters EXCEPT ![w] = NoAdd]
  /\ UNCHANGED << alCalls, alAsked, alSeen, alOut >>
  /\ UNCHANGED exceptActivity

\* Recent: the n newest events, newest first, n cut down to len(al.events)
Recent(events, n) ==
  LET total == Len(events)
      m == IF n > total THEN total ELSE n
  IN  [i \in 1 .. m |-> events[total + 1 - i]]

\* a reader calls Recent under the read lock
LogRecent ==
  /\ alMu = 0
  /\ \E n \in 0 .. MaxLogCapacity + 1 :
       /\ alAsked' = n
       /\ alOut' = Recent(alEvents, n)
  /\ alSeen' = alEvents
  /\ UNCHANGED << alEvents, alSeq, alMu, alWriters, alCalls, alAdded >>
  /\ UNCHANGED exceptActivity

ActivityInit == CoreIdle /\ TokenIdle /\ DiffIdle /\ LaterIdle

ActivityNext ==
  \/ \E w \in LogWriters : LogAdd(w)
  \/ \E w \in LogWriters : LogLock(w)
  \/ \E w \in LogWriters : LogEvict(w)
  \/ \E w \in LogWriters : LogAppend(w)
  \/ LogRecent

ActivitySpec == ActivityInit /\ [][ActivityNext]_vars

\* --------------------------------- properties of the normalizer of a result
\* the resource type a policy came from
TypeOfPolicy(sp) ==
  CHOOSE rt \in ResourceTypes : shortResourceType(rt) = sp.PolicyType

\* the platforms the Platform and Platforms properties of the instance name
FieldPlatforms(sp) ==
  { guessPlatformFromUTCM(sp.SettingsJSON[k].s) :
      k \in DOMAIN sp.SettingsJSON \cap { "Platform", "Platforms" } } \ { "" }

\* the total of the instances of a result
RECURSIVE InstanceCount(_)
InstanceCount(resources) ==
  IF resources = << >> THEN 0
  ELSE Len(resources[1].Instances) + InstanceCount(Tail(resources))

\* C29: the platform of every policy of a normalised result is the one a
\* platform property of its instance names; without one, the platform of the
\* resource type's table entry; without that, Windows when the resource type
\* name contains "windows"; and empty only when none of these gives one -
\* for resource types the table has and for the others.
C29_PlatformPrecedence ==
  nrPc = "done" =>
    \A i \in DOMAIN nrPolicies :
      LET sp == nrPolicies[i]
          rt == TypeOfPolicy(sp)
          default == IF utcmResourceIndex(rt).ok
                       THEN utcmResourceIndex(rt).meta.Platform ELSE ""
      IN  IF FieldPlatforms(sp) # { } THEN sp.Platform \in FieldPlatforms(sp)
          ELSE IF default # "" THEN sp.Platform = default
          ELSE IF Contains(rt, "windows") THEN sp.Platform = "Windows"
          ELSE sp.Platform = ""

\* C30: the policies of a normalised result are as many as its instances, and
\* every policy of a resource type the table does not have carries a category:
\* the one its name's words give, Other when it has none of them.
C30_OneRecordPerInstance ==
  nrPc = "done" =>
    /\ Len(nrPolicies) = InstanceCount(nrResult)
    /\ \A i \in DOMAIN nrPolicies :
         LET rt == TypeOfPolicy(nrPolicies[i])
         IN  ~utcmResourceIndex(rt).ok =>
               /\ nrPolicies[i].Category # ""
               /\ Contains(rt, "compliance") => nrPolicies[i].Category = "Compliance"
               /\ TypeWords[rt] \cap { "compliance", "role" } = { } =>
                    nrPolicies[i].Category = "Other"

\* a result of two groups of resource types the table does not have was
\* normalised into three policies, one of them in Other and one in Compliance
C30_Witness ==
  /\ nrPc = "done"
  /\ Len(nrResult) = 2
  /\ \A g \in DOMAIN nrResult : ~utcmResourceIndex(nrResult[g].ResourceType).ok
  /\ Len(nrPolicies) = 3
  /\ \E i, j \in DOMAIN nrPolicies :
       nrPolicies[i].Category = "Other" /\ nrPolicies[j].Category = "Compliance"

\* ------------------------------------------- properties of the job deletion
\* C28: a step that calls utcmDeleteSnapshotJob leaves the records, the sync
\* result and the snapshot's status as they are, and the error and the next
\* step of the export path are those of the failure that led to the delete,
\* whether the deletion succeeds or not.
C28_DeleteNeverChangesOutcome ==
  [][deleteCalls' # deleteCalls =>
       /\ UNCHANGED << utcmPolicies, result, syncErr, snapStatus, snapMsg, all >>
       /\ IF asyncDelete' # asyncDelete
            THEN UNCHANGED << utcmErr, pc >>
            ELSE /\ utcmErr' = (IF pc = "waitReturned" THEN "wait" ELSE "download")
                 /\ pc' = "syncDecide"]_vars

\* the export returned records, the deletion of its job failed, and the
\* snapshot is complete
C28_Witness ==
  /\ asyncDelete = "done"
  /\ deleteCalls = << TheJob >>
  /\ ~srvDeleted
  /\ utcmPolicies # << >>
  /\ pc = "done"
  /\ snapStatus[TheSnap] = SnapshotStatusComplete

\* ---------------------------------------- properties of the snapshot download
\* the names of the instances a result holds
ResultNames(resources) ==
  UNION { ToSet(resources[i].Instances) : i \in DOMAIN resources }

\* the body is one member holding a non-empty list of plain objects
OnlyMember(body, key) ==
  /\ body.top = "object"
  /\ \A k \in BodyKeySet \ { key } : body.members[k].t = "absent"
  /\ body.members[key].t = "array"
  /\ body.members[key].items # << >>
  /\ \A i \in DOMAIN body.members[key].items :
       body.members[key].items[i].kind = "object"

\* C27: a fetched body of any of the three shapes - a list of {resourceType,
\* instances}, a map from resource type to instances, a "value" collection -
\* comes back without error holding its instances, and a download that
\* returns no error holds at least one instance.
C27_ThreeShapesOrFormatError ==
  (dlPc = "done" /\ dlErr \notin { "empty resource location", "download snapshot" }) =>
    /\ dlErr = "" => ResultNames(dlResult) # {}
    /\ OnlyMember(dlBody, "deviceCompliancePolicy") =>
         /\ dlErr = ""
         /\ ResultNames(dlResult) = ToSet(namesOf(dlBody.members["deviceCompliancePolicy"].items))
    /\ OnlyMember(dlBody, "value") =>
         /\ dlErr = ""
         /\ ResultNames(dlResult) = ToSet(namesOf(dlBody.members["value"].items))
    /\ (dlBody.top = "array" /\ dlBody.items # << >>
        /\ \A i \in DOMAIN dlBody.items :
             groupOk(dlBody.items[i]) /\ dlBody.items[i].instNames # << >>) =>
         /\ dlErr = ""
         /\ dlResult = asGroups(dlBody.items)

\* -------------------------------------------- properties of the device sync
\* C24: over a well-formed device list every SyncDevices call that reaches the
\* list sends exactly one request and the loop goes on with the next link that
\* request returned; the pages are requested one at a time in chain order;
\* and a sync that ends without error has requested every page up to the
\* first empty next link and handed every device to Upsert exactly once.
C24_PagesInOrderEachRecordOnce ==
  /\ syLastCall \notin { "none", "auth failed" } => syCallReqs = 1
  /\ \A i \in DOMAIN syRequests : syRequests[i] = i
  /\ Len(syRequests) <= sySource.n
  /\ (syPc = "loop" /\ syRequests # << >>) =>
        syCursor = NextLink(sySource, syRequests[Len(syRequests)])
  /\ (syPc \in { "returned", "done" } /\ syErr = "") =>
        /\ Len(syRequests) = sySource.n
        /\ syUpserts = PagesUpTo(sySource, sySource.n)
        /\ \A d \in DeviceSet :
             Cardinality({ i \in DOMAIN syUpserts : syUpserts[i] = d }) = 1
        /\ syTotal = Len(Devices)

\* a sync over three pages, the middle one without devices, ended without error
C24_Witness ==
  /\ syPc = "done"
  /\ syErr = ""
  /\ sySource.n = 3
  /\ PageDevices(sySource, 2) = << >>
  /\ PageDevices(sySource, 3) # << >>
  /\ Len(syUpserts) = Len(Devices)

\* C25: a page that cannot be fetched ends the attempt with an error: no page
\* is requested afterwards, the attempt is not recorded as a successful sync,
\* and success is reported only when every page was fetched.
C25_FailedPageStopsSync ==
  /\ syLastCall \notin { "none", "ok" } =>
        /\ syPc \in { "returned", "done" }
        /\ syErr # ""
        /\ ~syRecorded
        /\ syFlash # "success"
  /\ (syRecorded \/ syFlash = "success") =>
        /\ syLastCall = "ok"
        /\ Len(syRequests) = sySource.n
        /\ ToSet(syUpserts) = DeviceSet

\* the second page of a list could not be fetched after the first one was
\* processed, and the error was reported
C25_Witness ==
  /\ syPc = "done"
  /\ syLastCall = "request failed"
  /\ Len(syRequests) = 2
  /\ sySource.n = 3
  /\ syUpserts # << >>
  /\ syFlash = "error"

\* ---------------------------------------------- properties of the status map
\* C23: what a reader sees through the map it was handed - the set of entries
\* and every field value - stays what it was when All() returned, and every
\* status it sees is one that a single Set call stored.
C23_ReaderSnapshotStable ==
  \A r \in Readers :
    /\ Seen(rdMap[r], stHeap) = rdSeen[r]
    /\ \A t \in DOMAIN rdSeen[r] : rdSeen[r][t] \in StatusValues(t)

\* a reader holds an entry that has since been replaced in the map, and
\* another entry that has since been removed
C23_Witness ==
  \E r \in Readers :
    \E t, u \in DOMAIN rdMap[r] :
      /\ stStatuses[t] # 0
      /\ stStatuses[t] # rdMap[r][t]
      /\ stHeap[stStatuses[t]] # rdSeen[r][t]
      /\ stStatuses[u] = 0

\* ------------------------------------- termination of the health checks
\* C33: a provider marked checking is later marked connected or error, and a
\* round that was started completes, whatever the identity provider does.
C33_ChecksAndRoundsTerminate ==
  /\ \A t \in Tenants :
       (hStatus[t] = "checking") ~> (hStatus[t] \in { "connected", "error" })
  /\ (pollPc = "round") ~> (pollPc = "ticking")

\* ------------------------------------------ writers of the status map
\* a step of checkProvider
CheckStep == \E t \in Tenants, o \in Origins : CheckLoad(t, o) \/ CheckRecord(t, o)

C37_RunningCheckKeepsEntryRemoved ==
  [][\A t \in Tenants :
       (/\ ~hEnabled[t]
        /\ ~hEnabled'[t]
        /\ hStatus[t] = "none"
        /\ CheckLoad(t, "round") \/ CheckRecord(t, "round")) =>
         hStatus'[t] = "none"]_vars

\* --------------------------------------------- properties of the health checks
\* C21: a provider's consecutive-failure count is 0 after a successful check
\* and otherwise the number of failed checks completed since its last
\* successful one, whatever the interleaving of rounds and manual checks.
C21_FailCountIsFailedSince ==
  \A t \in Tenants : hFails[t] = failedSince[t]

\* C22: a round starts exactly one check for every provider enabled when it
\* began and for no other, it is declared complete only when each of them has
\* recorded connected or error, and no round starts while one is running.
C22_RoundWaitsForAllChecks ==
  [][/\ RoundStart =>
          /\ pollPc # "round"
          /\ roundSet' = { t \in Tenants : hEnabled[t] }
          /\ \A t \in Tenants :
               /\ hCheck[t]["round"].pc = "idle"
               /\ hCheck'[t]["round"].pc
                    = IF hEnabled[t] THEN "start" ELSE "idle"
     /\ (pollPc = "round" /\ pollPc' # "round") =>
          /\ \A t \in roundSet : roundOutcome[t] \in { "connected", "error" }
          /\ \A t \in Tenants : hCheck[t]["round"].pc = "idle"
     /\ \A t \in Tenants :
          (hCheck[t]["round"].pc = "idle" /\ hCheck'[t]["round"].pc # "idle")
            => RoundStart]_vars

\* the checks of a round are in flight together: both providers have been
\* marked checking and neither has recorded its outcome
C22_Witness ==
  /\ pollPc = "round"
  /\ roundSet = Tenants
  /\ \A t \in Tenants : hCheck[t]["round"].pc = "loaded"

\* C26: no step of a health check changes a provider's enabled flag, and a
\* provider that has failed is part of every later round while it is enabled.
C26_ChecksKeepEnabled ==
  [][/\ (\E t \in Tenants, o \in Origins : hCheck'[t][o] # hCheck[t][o]
                                            /\ hCheck[t][o].pc # "idle")
          => hEnabled' = hEnabled
     /\ (pollPc = "round" /\ pollPc' # "round") => hEnabled' = hEnabled
     /\ RoundStart =>
          \A t \in Tenants : (hEnabled[t] /\ hFails[t] > 0) => t \in roundSet']_vars

\* a provider has failed more than once in a row, is still enabled and is
\* being checked by a later round
C26_Witness ==
  \E t \in Tenants :
    /\ hFails[t] > 1
    /\ hEnabled[t]
    /\ rounds > 0
    /\ t \in roundSet
    /\ hCheck[t]["round"].pc = "loaded"

\* ---------------------------------------------- properties of the diff engine
\* the composite keys of a list of records
KeysOf(items) == { policyKey(items[i]) : i \in DOMAIN items }

\* C14: a set compared with itself gives no different, left-only or right-only
\* entry and exactly one matching entry per unique key.
C14_SelfCompareAllMatching ==
  (diffPc = "compared" /\ leftItems = rightItems) =>
    /\ stats.Different = 0
    /\ stats.LeftOnly = 0
    /\ stats.RightOnly = 0
    /\ stats.Matching = Cardinality(KeysOf(leftItems))
    /\ filter = "" =>
         /\ Len(diffs) = Cardinality(KeysOf(leftItems))
         /\ \A i \in DOMAIN diffs : diffs[i].Status = "matching"

\* C15: comparing with left and right swapped swaps the left-only and
\* right-only counts and keeps the matching and different counts.
C15_SwapSwapsCounts ==
  diffPc = "compared" =>
    LET swapped == computeDiff(rightItems, leftItems, filter).stats
    IN  /\ swapped.LeftOnly = stats.RightOnly
        /\ swapped.RightOnly = stats.LeftOnly
        /\ swapped.Matching = stats.Matching
        /\ swapped.Different = stats.Different

\* C16: every left record gives one entry, left-only iff no right record has
\* its key, matching iff a right record with its key has equal settings, else
\* different; every right record whose key no left record has gives one
\* right-only entry; nothing else is emitted and the counts are the numbers of
\* emitted entries.
C16_ClassifiedByKey ==
  (diffPc = "compared" /\ filter = "") =>
    LET L == DOMAIN leftItems
        R == DOMAIN rightItems
        SameKey(i, j) == policyKey(leftItems[i]) = policyKey(rightItems[j])
        HasKey(i) == \E j \in R : SameKey(i, j)
        Equal(i) ==
          \E j \in R :
            /\ SameKey(i, j)
            /\ diffSettings(leftItems[i].SettingsJSON,
                            rightItems[j].SettingsJSON).allMatch
    IN  /\ CountStatus(diffs, "left-only")
             = Cardinality({ i \in L : ~HasKey(i) })
        /\ CountStatus(diffs, "matching") = Cardinality({ i \in L : Equal(i) })
        /\ CountStatus(diffs, "different")
             = Cardinality({ i \in L : HasKey(i) /\ ~Equal(i) })
        /\ CountStatus(diffs, "right-only")
             = Cardinality({ j \in R : \A i \in L : ~SameKey(i, j) })
        /\ Len(diffs) = Len(leftItems)
                          + Cardinality({ j \in R : \A i \in L : ~SameKey(i, j) })
        /\ stats.LeftOnly = CountStatus(diffs, "left-only")
        /\ stats.Matching = CountStatus(diffs, "matching")
        /\ stats.Different = CountStatus(diffs, "different")
        /\ stats.RightOnly = CountStatus(diffs, "right-only")

\* C17: a set compared with the empty set has every record left-only: the
\* left-only count is the number of records and the other counts are zero.
C17_AgainstEmptyAllLeftOnly ==
  (diffPc = "compared" /\ rightItems = << >>) =>
    /\ stats = [NoStats EXCEPT !.LeftOnly = Len(leftItems)]
    /\ filter \in { "", "left-only" } =>
         /\ Len(diffs) = Len(leftItems)
         /\ \A i \in DOMAIN diffs : diffs[i].Status = "left-only"

\* several records, two of them under one key, compared with the empty set
C17_Witness ==
  /\ diffPc = "compared"
  /\ filter = ""
  /\ rightItems = << >>
  /\ Len(leftItems) > 1
  /\ Cardinality(KeysOf(leftItems)) < Len(leftItems)
  /\ stats.LeftOnly = Len(leftItems)

\* C18: for a left record and the right record it is matched with, there is
\* exactly one SettingDiff per key of either payload, carrying both stringified
\* values, changed iff they differ; the entry is matching iff none is changed;
\* minLength 4 against minLength 6 gives different with the one SettingDiff
\* (minLength, "4", "6", changed).
C18_SettingDiffPerUnionKey ==
  diffPc = "compared" =>
    \A i \in DOMAIN leftItems :
      policyKey(leftItems[i]) \in KeysOf(rightItems) =>
        LET l == leftItems[i].SettingsJSON
            r == rightIndex(rightItems)[policyKey(leftItems[i])].SettingsJSON
            sd == diffSettings(l, r)
            union == DOMAIN l \cup DOMAIN r
            status == IF \E n \in DOMAIN sd.diffs : sd.diffs[n].Changed
                        THEN "different" ELSE "matching"
        IN  /\ Len(sd.diffs) = Cardinality(union)
            /\ \A k \in union :
                 \E n \in DOMAIN sd.diffs :
                   /\ sd.diffs[n].Name = k
                   /\ sd.diffs[n].LeftValue = formatSettingValue(mapValue(l, k))
                   /\ sd.diffs[n].RightValue = formatSettingValue(mapValue(r, k))
                   /\ sd.diffs[n].Changed
                        = (sd.diffs[n].LeftValue # sd.diffs[n].RightValue)
            /\ filter \in { "", status } =>
                 \E n \in DOMAIN diffs :
                   /\ diffs[n].PolicyName = leftItems[i].PolicyName
                   /\ diffs[n].Category = leftItems[i].Category
                   /\ diffs[n].Platform = leftItems[i].Platform
                   /\ diffs[n].Status = status
                   /\ diffs[n].SettingDiffs = sd.diffs
            /\ (/\ l = "minLength" :> jsonNumber(4)
                /\ r = "minLength" :> jsonNumber(6)) =>
                 /\ status = "different"
                 /\ sd.diffs = << [Name |-> "minLength", LeftValue |-> "4",
                                   RightValue |-> "6", Changed |-> TRUE] >>

\* the scenario: Require PIN with minLength 4 on the left and 6 on the right
C18_Witness ==
  /\ diffPc = "compared"
  /\ filter = ""
  /\ leftItems = << BaseItem >>
  /\ rightItems = << [BaseItem EXCEPT !.SettingsJSON = "minLength" :> jsonNumber(6)] >>
  /\ stats = [NoStats EXCEPT !.Different = 1]
  /\ diffs = << [PolicyName |-> "Require PIN", Category |-> "Compliance",
                 Platform |-> "iOS", Status |-> "different",
                 SettingDiffs |-> << [Name |-> "minLength", LeftValue |-> "4",
                                      RightValue |-> "6", Changed |-> TRUE] >>] >>

NameFields(path) ==
  IF path = "export" THEN { "DisplayName", "displayName", "Name" }
  ELSE { "displayName", "name" }

\* C19: two captures of one logical policy whose raw records differ only in
\* the source identifier are matched and classified matching, on either path.
C19_IdentifierHasNoInfluence ==
  (/\ diffPc = "compared"
   /\ normPath # ""
   /\ leftItems[1].PolicyName # ""
   /\ policyKey(leftItems[1]) = policyKey(rightItems[1])) =>
    /\ stats = [NoStats EXCEPT !.Matching = 1]
    /\ filter \in { "", "matching" } =>
         /\ Len(diffs) = 1
         /\ diffs[1].Status = "matching"

\* C20: a normalised record whose raw record has no non-empty display-name
\* property but has an identifier is named by that identifier, and a name is
\* empty only when there is no identifier.
C20_NameFallsBackToIdentifier ==
  (diffPc # "raw" /\ normPath # "") =>
    /\ (/\ \A f \in NameFields(normPath) : ~stringField(rawLeft, f).ok
        /\ leftItems[1].SourceID # "") =>
         leftItems[1].PolicyName = leftItems[1].SourceID
    /\ leftItems[1].PolicyName = "" => leftItems[1].SourceID = ""

\* the properties of a raw record that are promoted to attributes of the
\* policy: the display names, the identifiers and the descriptions
PromotedFields ==
  { "DisplayName", "displayName", "Name", "name", "Identity", "Id", "id",
    "Description", "description" }

\* the properties that belong to the protocol, not to the policy
EnvelopeFields == { "@odata.type", "@odata.context", "Ensure" }

\* C31: the settings payload of a normalised record holds no envelope property
\* and no promoted property of the raw record, and holds every other property
\* of it with its value.
C31_PayloadIsInstanceMinusStripped ==
  (diffPc # "raw" /\ normPath # "") =>
    /\ DOMAIN leftItems[1].SettingsJSON =
         DOMAIN rawLeft \ (EnvelopeFields \cup PromotedFields)
    /\ \A k \in DOMAIN leftItems[1].SettingsJSON :
         k \in DOMAIN rawLeft /\ leftItems[1].SettingsJSON[k] = rawLeft[k]

\* ------------------------------------------- properties of the credential cache
\* the callers whose credential exchange is in flight
InFlight == { c \in Callers : callers[c].pc = "fetching" }

\* C11 as stated: a call made while a token is cached with more than two
\* minutes to its expiry returns that token without an exchange, and every
\* other call performs one exchange, stores the new token and returns it.
C11_EveryOtherCallStoresToken ==
  [][\A c \in Callers :
       /\ (callers[c].pc = "lock" /\ callers'[c].pc # "lock") =>
            IF tcToken # 0 /\ tcExpires - clock > safetyMargin
              THEN /\ callers'[c].pc = "done"
                   /\ callers'[c].ret = tcToken
                   /\ exchanges' = exchanges
                   /\ UNCHANGED << tcToken, tcExpires >>
              ELSE /\ callers'[c].pc = "fetching"
                   /\ exchanges' = exchanges + 1
       /\ (callers[c].pc = "fetching" /\ callers'[c].pc = "done") =>
            /\ callers'[c].ret # 0
            /\ tcToken' = callers'[c].ret
            /\ exchanges' = exchanges]_vars

\* C11 amended: a call made while a token is cached with more than two minutes
\* to its expiry returns that token without an exchange; every other call
\* performs one exchange and, when that exchange succeeds, stores the new
\* token with its expiry and returns it.
C11_CachedOrOneExchange ==
  [][\A c \in Callers :
       /\ (callers[c].pc = "lock" /\ callers'[c].pc # "lock") =>
            IF tcToken # 0 /\ tcExpires - clock > safetyMargin
              THEN /\ callers'[c].pc = "done"
                   /\ callers'[c].ret = tcToken
                   /\ exchanges' = exchanges
                   /\ UNCHANGED << tcToken, tcExpires >>
              ELSE /\ callers'[c].pc = "fetching"
                   /\ exchanges' = exchanges + 1
       /\ (callers[c].pc = "fetching" /\ callers'[c].pc = "done"
             /\ callers'[c].err = "") =>
            /\ callers'[c].ret # 0
            /\ callers'[c].ret # tcToken
            /\ tcToken' = callers'[c].ret
            /\ tcExpires' = clock + callers'[c].expiresIn
            /\ exchanges' = exchanges]_vars

\* one caller has exchanged and a second one was handed the same token from
\* the cache
C11_Witness ==
  \E c, d \in Callers :
    /\ callers[c].pc = "done" /\ callers[c].exch = 1 /\ callers[c].ret # 0
    /\ callers[d].pc = "done" /\ callers[d].hit /\ callers[d].exch = 0
    /\ callers[d].ret = callers[c].ret

\* C12 as stated: at most one exchange is in flight, and callers that arrived
\* together at a stale cache share one exchange and all return its token.
C12_AllReturnOneExchange ==
  /\ Cardinality(InFlight) <= 1
  /\ \A c, d \in Callers :
       (/\ c # d
        /\ callers[c].pc = "done" /\ callers[d].pc = "done"
        /\ callers[c].arrivedStale /\ callers[d].arrivedStale
        /\ callers[c].arrivedAt = callers[d].arrivedAt)
         => /\ callers[c].exch + callers[d].exch = 1
            /\ callers[c].ret # 0
            /\ callers[c].ret = callers[d].ret

\* C12 amended: at most one exchange is in flight, held by the owner of the
\* lock; a caller that arrived at a stale cache either performs an exchange of
\* its own or returns a token that an exchange stored after its arrival.
C12_OneExchangeInFlight ==
  /\ Cardinality(InFlight) <= 1
  /\ \A c \in Callers : callers[c].pc = "fetching" => tcMu = c
  /\ \A c \in Callers :
       (callers[c].pc = "done" /\ callers[c].arrivedStale) =>
          \/ callers[c].exch = 1 /\ ~callers[c].hit
          \/ /\ callers[c].hit /\ callers[c].exch = 0
             /\ callers[c].ret # 0
             /\ callers[c].ret # callers[c].arrivedTok
             /\ callers[c].ret = callers[c].entTok

\* two callers arrived together at a stale cache; one exchanged, the other
\* returned the token of that exchange
C12_Witness ==
  \E c, d \in Callers :
    /\ c # d
    /\ callers[c].pc = "done" /\ callers[d].pc = "done"
    /\ callers[c].arrivedStale /\ callers[d].arrivedStale
    /\ callers[c].arrivedAt = callers[d].arrivedAt
    /\ callers[c].exch = 1 /\ callers[c].ret # 0
    /\ callers[d].hit /\ callers[d].ret = callers[c].ret

\* C13: a call whose exchange fails returns the error after that one exchange,
\* with no token, and the cached token and expiry are what they were when the
\* call took the lock.
C13_FailedExchangeKeepsCache ==
  [][\A c \in Callers :
       (callers[c].pc = "fetching" /\ callers'[c].pc = "done"
          /\ callers'[c].err # "") =>
         /\ callers'[c].ret = 0
         /\ callers'[c].exch = 1
         /\ exchanges' = exchanges
         /\ tcToken' = callers[c].entTok
         /\ tcExpires' = callers[c].entExp
         /\ UNCHANGED << tcToken, tcExpires >>]_vars

\* an exchange failed on a non-success status or an empty token while an
\* earlier token was cached, and that token is still cached
C13_Witness ==
  \E c \in Callers :
    /\ callers[c].pc = "done"
    /\ callers[c].err \in { "token error", "empty access token" }
    /\ callers[c].exch = 1
    /\ callers[c].entTok # 0
    /\ tcToken = callers[c].entTok
    /\ tcExpires = callers[c].entExp


\* ------------------------------------------- properties of one capture
\* the positions of the export-job path of SyncPoliciesUTCM
ExportPcs == { "create", "waitReturned", "download" } \cup WaitPcs

\* C1: when the shutdown context is cancelled while the capture is on the
\* export-job path, the finished capture has left the snapshot in error with
\* the "interrupted" message, never in complete and never in capturing.
C1_InterruptedIsError ==
  (pc = "done" /\ cancelledAt \in ExportPcs) =>
    /\ snapStatus[TheSnap] = SnapshotStatusError
    /\ snapMsg[TheSnap] = InterruptedMsg

\* C6: the wait returns the job only after a poll observed succeeded or
\* partiallySuccessful, returns the job-failed error with the reported details
\* exactly when a poll observed failed, and after a poll that observed
\* notStarted or running it is still waiting or has ended some other way.
C6_WaitFollowsJobStates ==
  /\ waitRes = "ok" => lastStatus \in Succeeded
  /\ waitRes = "jobFailed" <=> lastStatus = "failed"
  /\ waitRes = "jobFailed" => waitDetails = srvDetails
  /\ lastStatus \in NonTerminal => waitRes \notin { "ok", "jobFailed" }
  /\ (lastStatus \in NonTerminal /\ waitRes = "") => pc \in WaitPcs

C6_Witness ==
  /\ pc = "waitReturned"
  /\ waitRes = "jobFailed"
  /\ waitDetails = << "detail" >>

\* C7 as stated: no poll is issued once the deadline has passed, and a wait
\* that times out has returned by the deadline plus one poll interval.
C7_NoPollAfterDeadline ==
  /\ ~polledLate
  /\ (pc = "waitReturned" /\ waitRes = "timeout") => now <= deadline + pollInterval

\* C7 amended: a wait that times out never observed a terminal status and
\* returns after the deadline; a poll starts at most one poll interval after
\* the deadline, and the wait ends at most one poll interval plus the duration
\* of that last poll after the deadline.
C7_TimeoutBound ==
  /\ waitRes = "timeout" => lastStatus \in NonTerminal
  /\ (pc = "waitReturned" /\ waitRes = "timeout") => now > deadline
  /\ pc = "waitPolling" => now <= deadline + pollInterval
  /\ pc \in WaitPcs \cup { "waitReturned" } =>
       now <= deadline + pollInterval + MaxPollLatency

C7_Witness ==
  /\ pc = "waitReturned"
  /\ waitRes = "timeout"
  /\ polledLate
  /\ now > deadline + pollInterval

C9_DeleteOnEveryPath ==
  /\ jobID = "" => (deleteCalls = << >> /\ asyncDelete = "none")
  /\ \A i \in 1 .. Len(deleteCalls) : deleteCalls[i] = jobID /\ jobID # ""
  /\ (jobID # "" /\ pc \notin ExportPcs) =>
       (Len(deleteCalls) >= 1 \/ asyncDelete = "pending")

C9_Witness ==
  /\ pc = "done"
  /\ utcmErr = "wait"
  /\ waitRes = "pollFailed"
  /\ deleteCalls = << TheJob >>

\* the records of the endpoints that succeeded, in the order fetched
RECURSIVE SucceededRecords(_)
SucceededRecords(fs) ==
  IF fs = << >> THEN << >>
  ELSE (IF Head(fs).err = "" THEN Head(fs).items ELSE << >>)
         \o SucceededRecords(Tail(fs))

\* C10: when the export gave an error or no record, every endpoint of the list
\* is visited once and in list order, failed ones are skipped, and the result
\* is the records of the succeeded endpoints in list order; when the export
\* gave a record, no endpoint is visited.
C10_FallbackVisitsAll ==
  /\ pc = "legacy" => visited = SubSeq(policyEndpoints, 1, epIdx - 1)
  /\ pc \in { "finish", "done" } =>
       IF utcmErr = "" /\ Len(utcmPolicies) > 0
         THEN visited = << >> /\ result = utcmPolicies
         ELSE /\ visited = policyEndpoints
              /\ Len(fetched) = Len(policyEndpoints)
              /\ result = SucceededRecords(fetched)

C10_Witness ==
  /\ pc = "done"
  /\ Len(fetched) >= 2
  /\ fetched[1].err # "" /\ fetched[1].items # << >>
  /\ fetched[2].err = "" /\ fetched[2].items # << >>
  /\ result # << >>

\* the records of result that came from endpoint ep, in result order
RecordsOf(ep, rs) ==
  SelectSeq(rs, LAMBDA x : x[1] = ep)

C38_EndpointAllOrNone ==
  /\ pc = "legacy" =>
       \A i \in 1 .. Len(fetched) :
         RecordsOf(visited[i], all) =
           IF fetched[i].err = "" THEN fetched[i].items ELSE << >>
  /\ (pc \in { "finish", "done" } /\ visited # << >>) =>
       \A i \in 1 .. Len(fetched) :
         RecordsOf(visited[i], result) =
           IF fetched[i].err = "" THEN fetched[i].items ELSE << >>

C38_Witness ==
  /\ pc = "done"
  /\ Len(fetched) >= 2
  /\ fetched[1].err = "" /\ fetched[1].items # << >>
  /\ fetched[2].err # "" /\ fetched[2].items # << >>
  /\ RecordsOf(visited[1], result) = fetched[1].items
  /\ RecordsOf(visited[2], result) = << >>

\* ------------------------------------------- properties of the server
\* C2: a snapshot is created in capturing; a capture run finds its snapshot in
\* capturing and moves it to complete or error; a complete snapshot keeps its
\* status; a snapshot goes back to capturing only in the reset of a retry.
C2_Lifecycle ==
  [][\A id \in SnapIds :
       /\ (snapStatus[id] = "absent" /\ snapStatus'[id] # "absent") =>
            snapStatus'[id] = SnapshotStatusCapturing
       /\ snapStatus[id] = SnapshotStatusComplete =>
            snapStatus'[id] \in { SnapshotStatusComplete, "absent" }
       /\ (snapStatus[id] = SnapshotStatusError
           /\ snapStatus'[id] = SnapshotStatusCapturing) => RetryReset(id)
       /\ RunSnapshotCapture(id) =>
            /\ snapStatus[id] = SnapshotStatusCapturing
            /\ snapStatus'[id] \in { SnapshotStatusComplete, SnapshotStatusError }]_vars

C4_RetryOnlyOnError ==
  [][\A id \in SnapIds :
       /\ RetryReset(id) =>
            IF snapStatus[id] = SnapshotStatusError
              THEN /\ snapStatus'[id] = SnapshotStatusCapturing
                   /\ bgWg' = bgWg + 1
                   /\ tasks'[id] = tasks[id] + 1
              ELSE UNCHANGED << snapStatus, snapMsg, tasks, bgWg >>
       /\ (RetryCheck(id)
           /\ snapStatus[id] \in { SnapshotStatusCapturing, SnapshotStatusComplete })
            => UNCHANGED vars]_vars

\* C5: Shutdown has cancelled the shared context before it waits; it goes on
\* to stop the HTTP server only after done was closed or the grace context
\* expired; and when the grace context expired first, with captures still in
\* flight, it completes normally, that is it returns nil to main.
C5_ShutdownCompletes ==
  /\ mainPc \in { "shutdownWait", "httpShutdown", "exited" } => ctxCancelled
  /\ mainPc \in { "run", "shutdownWait" } => listening
  /\ mainPc \in { "httpShutdown", "exited" } =>
       \/ selectBranch = "done" /\ doneClosed
       \/ selectBranch = "timeout" /\ graceExpired
  /\ (mainPc = "exited" /\ selectBranch = "timeout" /\ bgWg > 0) =>
       shutdownErr = ""

\* C36: under every interleaving of create and retry requests no snapshot has
\* more than one capture in flight.
C36_OneCapturePerSnapshot ==
  \A id \in SnapIds : tasks[id] <= 1

\* a value that stands for nothing: a missing key, null or the empty string
Blank(m, k) ==
  \/ k \notin DOMAIN m
  \/ m[k].t = "null"
  \/ m[k].t = "string" /\ m[k].s = ""

\* the decimal text of the whole numbers of the model
DecimalText == (1 :> "1") @@ (4 :> "4")

\* string x and value y carry the same text: y is that string, or the bool or
\* the whole number written that way
SameText(x, y) ==
  /\ x.t = "string"
  /\ \/ y = x
     \/ y.t = "bool" /\ x.s = (IF y.b THEN "true" ELSE "false")
     \/ y.t = "number" /\ y.n \in DOMAIN DecimalText /\ x.s = DecimalText[y.n]

\* the pairs of the settings comparison that count as equal
EqualPair(l, r, k) ==
  \/ Blank(l, k) /\ Blank(r, k)
  \/ /\ k \in DOMAIN l /\ k \in DOMAIN r
     /\ \/ l[k] = r[k]
        \/ SameText(l[k], r[k])
        \/ SameText(r[k], l[k])

\* C40: in the settings comparison a key missing on one side equals the key
\* present with null or the empty string, and a string equals the bool or the
\* whole number with the same text; the row of such a pair has changed = false,
\* and a policy whose keys are all such pairs is matching, never different.
C40_LooseEquality ==
  (diffPc = "compared" /\ filter = "") =>
    LET l == leftItems[1].SettingsJSON
        r == rightItems[1].SettingsJSON
        rows == diffs[1].SettingDiffs
    IN  /\ \A i \in DOMAIN rows :
             EqualPair(l, r, rows[i].Name) => ~rows[i].Changed
        /\ (\A k \in DOMAIN l \cup DOMAIN r : EqualPair(l, r, k)) =>
             /\ diffs[1].Status = "matching"
             /\ stats.Different = 0

C40_Witness ==
  /\ diffPc = "compared" /\ filter = ""
  /\ leftItems[1].SettingsJSON = ("enabled" :> jsonString("true"))
  /\ rightItems[1].SettingsJSON
       = ("enabled" :> jsonBool(TRUE)) @@ ("minLength" :> jsonNull)
  /\ diffs[1].Status = "matching"
  /\ Len(diffs[1].SettingDiffs) = 2
  /\ \A i \in 1 .. 2 : ~diffs[1].SettingDiffs[i].Changed

\* the last n elements of a sequence, all of it when it is shorter
LastOf(q, n) ==
  IF Len(q) <= n THEN q ELSE SubSeq(q, Len(q) - n + 1, Len(q))

Smaller(a, b) == IF a < b THEN a ELSE b

\* C39: under every interleaving of the writers the log never holds more
\* events than its capacity; whenever no Add is in progress it holds the most
\* recent min(total added, capacity) events in insertion order; and Recent(n)
\* returned the min(n, size) newest events of the log it found, newest first.
C39_RingBuffer ==
  /\ Len(alEvents) <= MaxLogCapacity
  /\ alMu = 0 =>
       /\ alEvents = LastOf(alAdded, MaxLogCapacity)
       /\ Len(alEvents) = Smaller(Len(alAdded), MaxLogCapacity)
  /\ alAsked # -1 =>
       /\ Len(alOut) = Smaller(alAsked, Len(alSeen))
       /\ \A i \in 1 .. Len(alOut) : alOut[i] = alSeen[Len(alSeen) + 1 - i]

C39_Witness ==
  /\ alMu = 0
  /\ Len(alAdded) = MaxLogCapacity + 1
  /\ alAdded[1] > alAdded[2]
  /\ alEvents = Tail(alAdded)
  /\ alAsked = MaxLogCapacity + 1
  /\ alSeen = alEvents
  /\ Len(alOut) = MaxLogCapacity
  /\ alOut[1] = alAdded[Len(alAdded)]

====
